---------------------------- MODULE Spec2Model ----------------------------
(***************************************************************************)
(* Model of the graph-import pipeline of neo4j-finance.                    *)
(*                                                                         *)
(* Part 1: the batch transaction manager (lib/batch-manager.ts,            *)
(* executeBatch) together with the transactional executor it drives        *)
(* (lib/neo4j.ts, executeWriteTransaction).  One executeBatch call is a    *)
(* state machine whose steps are the synchronous segments between two      *)
(* awaits; the executor, the item queries, the backoff timer and the       *)
(* caller's onProgress callback are the environment.                       *)
(***************************************************************************)
EXTENDS Integers, Sequences, FiniteSets, TLC

\* ------------------------------------------------------------------ bounds
MaxItems == 3           \* longest items list passed to executeBatch
MaxBatchSizeOpt == 2    \* largest explicit batchSize option
MaxRetriesOpt == 1      \* largest explicit maxRetries option

\* ------------------------------------------------------- program constants
DEFAULT_BATCH_SIZE == 200
DEFAULT_MAX_RETRIES == 3
RETRY_DELAY_MS == 100

\* The executeBatch invocations of the model.
Calls == {1, 2}

\* ------------------------------------------------------- JavaScript values
\* A numeric option: undefined, or the rational num/den (den > 0).
Undefined == [def |-> FALSE, num |-> 0, den |-> 1]
Num(n) == [def |-> TRUE, num |-> n, den |-> 1]
Frac(n, d) == [def |-> TRUE, num |-> n, den |-> d]

\* options?.x ?? dflt
Coalesce(opt, dflt) == IF opt.def THEN opt ELSE Num(dflt)

\* Number.isInteger
IsInteger(x) == x.num % x.den = 0

\* the integer a number option denotes (exact when IsInteger)
IntOf(x) == x.num \div x.den

RECURSIVE Pow2(_)
Pow2(n) == IF n <= 0 THEN 1 ELSE 2 * Pow2(n - 1)

\* Values a rejected promise or a throwing callback can carry: Error objects
\* (with an identity) and a non-Error string.
NoError == [type |-> "null", id |-> "none", message |-> ""]
ErrorA == [type |-> "Error", id |-> "errA", message |-> "Transaction failed"]
StringValue == [type |-> "string", id |-> "none", message |-> "Something went wrong"]
RaisedValues == {ErrorA, StringValue}

\* new Error(message): a fresh object
NewError(message) == [type |-> "Error", id |-> "fresh", message |-> message]

\* String(value)
StringOf(value) ==
    IF value.type = "Error" THEN "Error: " \o value.message ELSE value.message

\* error instanceof Error ? error : new Error(String(error))
NormalizeAlwaysWraps(error) == NewError(StringOf(error))

NormalizeError(error) ==
    IF error.type = "Error" THEN error ELSE NewError(StringOf(error))

\* ------------------------------------------------------------- validation
ValidBatchSizeNoIntegerCheck(batchSize) == batchSize.num > 0

\* !(!Number.isInteger(batchSize) || batchSize <= 0)
ValidBatchSize(batchSize) == ~(~IsInteger(batchSize) \/ batchSize.num <= 0)

\* !(!Number.isInteger(maxRetries) || maxRetries < 0)
ValidMaxRetries(maxRetries) == ~(~IsInteger(maxRetries) \/ maxRetries.num < 0)

BatchSizeError == NewError("batchSize must be a positive integer")
MaxRetriesError == NewError("maxRetries must be a non-negative integer")

\* --------------------------------------------------------------- chunking
Min(a, b) == IF a <= b THEN a ELSE b

\* array.slice(from, to) on 0-based indices
SliceDropsLast(array, from, to) == SubSeq(array, from + 1, Min(to, Len(array)) - 1)

Slice(array, from, to) == SubSeq(array, from + 1, Min(to, Len(array)))

\* the loop of chunkArray: for (i; i < array.length; i += size) push slice
RECURSIVE ChunkLoop(_, _, _, _)
ChunkLoop(array, size, i, chunks) ==
    IF i < Len(array)
    THEN ChunkLoop(array, size, i + size, Append(chunks, Slice(array, i, i + size)))
    ELSE chunks

chunkArray(array, size) == ChunkLoop(array, size, 0, <<>>)


\* -------------------------------------------------------------- variables
VARIABLES
    pc,              \* where each call stands: idle, awaitTx, backoff, done, aborted
    items,           \* the items argument
    options,         \* the options argument as given
    batchSize,       \* const batchSize
    maxRetries,      \* const maxRetries
    batches,         \* const batches = chunkArray(items, batchSize)
    processedItems,  \* let processedItems
    batchIndex,      \* let batchIndex (0-based)
    retryCount,      \* let retryCount
    lastError,       \* let lastError
    delay,           \* const delay of the pending backoff timer
    result,          \* the BatchResult the call resolved with
    thrown,          \* the error the call rejected with
    tx,              \* the executor's transaction of the attempt under way
    attempts,        \* the executeWriteTransaction invocations for the current chunk
    ledger,          \* the chunks handed to the executor, the chunks committed
    progress,        \* the onProgress invocations: how many, and the latest report
    raised,          \* the value caught by the most recent catch block
    request,         \* the arguments of the query generator call under way
    outcome,         \* what that call returned or threw
    store            \* the nodes of the graph store the node queries run against

argVars == <<items, options, batchSize, maxRetries, batches>>
loopVars == <<processedItems, batchIndex, retryCount, lastError, delay>>
vars == <<pc, items, options, batchSize, maxRetries, batches, processedItems,
          batchIndex, retryCount, lastError, delay, result, thrown, tx,
          attempts, ledger, progress, raised, request, outcome, store>>
batchVars == <<pc, argVars, loopVars, result, thrown, tx, attempts, ledger, progress,
               raised>>
queryVars == <<request, outcome, store>>

\* The inputs the model draws.
ItemLists == {[i \in 1..n |-> i] : n \in 0..MaxItems}
BatchSizeOpts ==
    {Undefined, Num(-1), Num(0), Frac(3, 2)} \cup {Num(n) : n \in 1..MaxBatchSizeOpt}
MaxRetriesOpts ==
    {Undefined, Num(-1), Frac(1, 2)} \cup {Num(n) : n \in 0..MaxRetriesOpt}
OptionSets ==
    [batchSize : BatchSizeOpts, maxRetries : MaxRetriesOpts, onProgress : BOOLEAN]

\* No executeBatch call invokes the executor more often than this for one chunk.
LargestMaxRetries ==
    IF DEFAULT_MAX_RETRIES > MaxRetriesOpt THEN DEFAULT_MAX_RETRIES ELSE MaxRetriesOpt
MaxAttempts == LargestMaxRetries + 1

NoResult == [succeeded |-> -1, totalBatches |-> -1]
NoTx == [state |-> "none", opened |-> 0, runs |-> <<>>, error |-> NoError]

\* The executor-side record of the current chunk (1-based, 0: none): how often
\* executeWriteTransaction was invoked for it, how many of these invocations
\* committed and failed, and which one committed first (0: none yet).
NoAttempts == [chunk |-> 0, invoked |-> 0, committed |-> 0, failed |-> 0,
               firstCommit |-> 0]

\* The executor-side record of the whole call: the chunks it was invoked
\* for, the chunks it committed, and its invocations not settled yet.
NoLedger == [invoked |-> {}, committed |-> {}, inFlight |-> 0]

NoReport == [currentBatch |-> 0, totalBatches |-> 0, itemsProcessed |-> 0,
             totalItems |-> 0]
NoProgress == [count |-> 0, last |-> NoReport]

\* No query generator call is under way.
NoRequest == [fn |-> "none"]
NoOutcome == [kind |-> "none", query |-> <<>>, params |-> <<>>, message |-> <<>>]
NoStore == [nodes |-> {}, before |-> {}, lastParams |-> <<>>, params |-> <<>>, executed |-> 0]

Init ==
    /\ pc = [c \in Calls |-> IF c = 1 THEN "idle" ELSE "unused"]
    /\ items = [c \in Calls |-> <<>>]
    /\ options = [c \in Calls |-> [batchSize |-> Undefined, maxRetries |-> Undefined,
                                   onProgress |-> FALSE]]
    /\ batchSize = [c \in Calls |-> 0]
    /\ maxRetries = [c \in Calls |-> 0]
    /\ batches = [c \in Calls |-> <<>>]
    /\ processedItems = [c \in Calls |-> 0]
    /\ batchIndex = [c \in Calls |-> 0]
    /\ retryCount = [c \in Calls |-> 0]
    /\ lastError = [c \in Calls |-> NoError]
    /\ delay = [c \in Calls |-> 0]
    /\ result = [c \in Calls |-> NoResult]
    /\ thrown = [c \in Calls |-> NoError]
    /\ tx = [c \in Calls |-> NoTx]
    /\ attempts = [c \in Calls |-> NoAttempts]
    /\ ledger = [c \in Calls |-> NoLedger]
    /\ progress = [c \in Calls |-> NoProgress]
    /\ raised = [c \in Calls |-> NoError]
    /\ request = NoRequest
    /\ outcome = NoOutcome
    /\ store = NoStore

\* ------------------------------------------------------ the loops' control
\* Where control goes from the head of the while loop of batch bi with retry
\* count rc: into an attempt, or (all batches done) to the return statement.
\*   for (batchIndex < batches.length) { retryCount = 0; while (retryCount <= maxRetries) ...
RECURSIVE LoopPoint(_, _, _, _)
LoopPoint(nBatches, maxR, bi, rc) ==
    IF bi >= nBatches THEN [kind |-> "return", batchIndex |-> bi, retryCount |-> rc]
    ELSE IF rc <= maxR THEN [kind |-> "attempt", batchIndex |-> bi, retryCount |-> rc]
    ELSE LoopPoint(nBatches, maxR, bi + 1, 0)

\* The call goes on from point pt: it invokes executeWriteTransaction for
\* the chunk of pt, or returns {succeeded: processedItems, totalBatches}.
Resume(c, pt, processed) ==
    /\ batchIndex' = [batchIndex EXCEPT ![c] = pt.batchIndex]
    /\ retryCount' = [retryCount EXCEPT ![c] = pt.retryCount]
    /\ IF pt.kind = "attempt"
       THEN /\ attempts[c].chunk = pt.batchIndex + 1 => attempts[c].invoked < MaxAttempts
            /\ pc' = [pc EXCEPT ![c] = "awaitTx"]
            /\ tx' = [tx EXCEPT ![c] = [state |-> "invoked", opened |-> 0,
                                        runs |-> <<>>, error |-> NoError]]
            /\ attempts' = [attempts EXCEPT ![c] =
                   IF @.chunk = pt.batchIndex + 1 THEN [@ EXCEPT !.invoked = @ + 1]
                   ELSE [NoAttempts EXCEPT !.chunk = pt.batchIndex + 1, !.invoked = 1]]
            /\ ledger' = [ledger EXCEPT ![c].invoked = @ \cup {pt.batchIndex + 1},
                                        ![c].inFlight = @ + 1]
            /\ UNCHANGED result
       ELSE /\ pc' = [pc EXCEPT ![c] = "done"]
            /\ result' = [result EXCEPT ![c] =
                   [succeeded |-> processed, totalBatches |-> Len(batches'[c])]]
            /\ UNCHANGED <<tx, attempts, ledger>>

\* executeBatch is called and runs to its first await, return or throw.
CallWith(c, its, opts) ==
    /\ pc[c] = "idle"
    /\ LET bSize == Coalesce(opts.batchSize, DEFAULT_BATCH_SIZE)
           mRetries == Coalesce(opts.maxRetries, DEFAULT_MAX_RETRIES)
           chunks == chunkArray(its, IntOf(bSize))
       IN /\ items' = [items EXCEPT ![c] = its]
          /\ options' = [options EXCEPT ![c] = opts]
          /\ UNCHANGED <<lastError, delay, progress, raised>>
          /\ batches' = [batches EXCEPT ![c] =
                 IF ValidBatchSize(bSize) /\ ValidMaxRetries(mRetries) /\ Len(its) > 0
                 THEN chunks ELSE @]
          /\ IF ~ValidBatchSize(bSize) \/ ~ValidMaxRetries(mRetries)
             THEN /\ pc' = [pc EXCEPT ![c] = "aborted"]
                  /\ thrown' = [thrown EXCEPT ![c] =
                         IF ~ValidBatchSize(bSize) THEN BatchSizeError
                         ELSE MaxRetriesError]
                  /\ UNCHANGED <<batchSize, maxRetries, processedItems, batchIndex,
                                 retryCount, result, tx, attempts, ledger>>
             ELSE /\ batchSize' = [batchSize EXCEPT ![c] = IntOf(bSize)]
                  /\ maxRetries' = [maxRetries EXCEPT ![c] = IntOf(mRetries)]
                  /\ UNCHANGED thrown
                  /\ IF Len(its) = 0
                     THEN /\ pc' = [pc EXCEPT ![c] = "done"]
                          /\ result' = [result EXCEPT ![c] =
                                 [succeeded |-> 0, totalBatches |-> 0]]
                          /\ UNCHANGED <<processedItems, batchIndex, retryCount,
                                         tx, attempts, ledger>>
                     ELSE /\ processedItems' = [processedItems EXCEPT ![c] = 0]
                          /\ Resume(c, LoopPoint(Len(chunks), IntOf(mRetries), 0, 0), 0)
    /\ UNCHANGED queryVars

\* executeBatch is called with any of the inputs of the model.
Call(c) == \E its \in ItemLists, opts \in OptionSets : CallWith(c, its, opts)

\* ------------------------------------------------------------ the executor
\* The chunk of the attempt under way: const batch = batches[batchIndex].
CurrentBatch(c) == batches[c][batchIndex[c] + 1]

\* executeSingleBatch: batch.map((item) => tx.run(item.query, item.params)),
\* one query per item, every one issued before any is awaited.
IssuedRuns(batch) == [i \in 1..Len(batch) |-> [item |-> batch[i], status |-> "pending"]]

AllResolved(runs) == \A i \in 1..Len(runs) : runs[i].status = "resolved"

\* await Promise.all(runs) inside the unit of work: how the unit of work
\* stands after a run has settled.  It resolves when every run has resolved
\* and rejects with the first rejection, whatever the other runs do.
PromiseAll(now, runs, settledAs, error) ==
    IF now.state # "open" THEN [state |-> now.state, error |-> now.error]
    ELSE IF settledAs = "rejected" THEN [state |-> "workRejected", error |-> error]
    ELSE IF AllResolved(runs) THEN [state |-> "workResolved", error |-> NoError]
    ELSE [state |-> "open", error |-> NoError]

\* The executor's record of the current chunk after its invocation under
\* way settled.
Committed(log) ==
    [log EXCEPT !.committed = @ + 1,
                !.firstCommit = IF @ = 0 THEN log.invoked ELSE @]

Failed(log) == [log EXCEPT !.failed = @ + 1]

\* session.executeWrite opens a transaction and calls the unit of work, which
\* calls executeSingleBatch(batch, tx).
ExecutorRunsWork(c) ==
    /\ pc[c] = "awaitTx"
    /\ tx[c].state = "invoked"
    /\ LET runs == IssuedRuns(CurrentBatch(c))
       IN tx' = [tx EXCEPT ![c] =
              [state |-> IF Len(runs) = 0 THEN "workResolved" ELSE "open",
               opened |-> tx[c].opened + 1, runs |-> runs, error |-> NoError]]
    /\ UNCHANGED <<pc, argVars, loopVars, result, thrown, attempts, ledger, progress,
                   raised>>
    /\ UNCHANGED queryVars

\* One item query of the open transaction completes.
RunResolves(c, i) ==
    /\ pc[c] = "awaitTx"
    /\ tx[c].state \in {"open", "workRejected"}
    /\ i \in 1..Len(tx[c].runs)
    /\ tx[c].runs[i].status = "pending"
    /\ LET runs == [tx[c].runs EXCEPT ![i].status = "resolved"]
           work == PromiseAll(tx[c], runs, "resolved", NoError)
       IN tx' = [tx EXCEPT ![c] =
              [@ EXCEPT !.state = work.state, !.runs = runs, !.error = work.error]]
    /\ UNCHANGED <<pc, argVars, loopVars, result, thrown, attempts, ledger, progress,
                   raised>>
    /\ UNCHANGED queryVars

\* One item query of the open transaction fails.
RunRejects(c, i, error) ==
    /\ pc[c] = "awaitTx"
    /\ tx[c].state \in {"open", "workRejected"}
    /\ i \in 1..Len(tx[c].runs)
    /\ tx[c].runs[i].status = "pending"
    /\ LET runs == [tx[c].runs EXCEPT ![i].status = "rejected"]
           work == PromiseAll(tx[c], runs, "rejected", error)
       IN tx' = [tx EXCEPT ![c] =
              [@ EXCEPT !.state = work.state, !.runs = runs, !.error = work.error]]
    /\ UNCHANGED <<pc, argVars, loopVars, result, thrown, attempts, ledger, progress,
                   raised>>
    /\ UNCHANGED queryVars

\* The unit of work resolved and the executor commits the transaction.
ExecutorCommits(c) ==
    /\ pc[c] = "awaitTx"
    /\ tx[c].state = "workResolved"
    /\ tx' = [tx EXCEPT ![c].state = "committed"]
    /\ attempts' = [attempts EXCEPT ![c] = Committed(@)]
    /\ ledger' = [ledger EXCEPT ![c].committed = @ \cup {attempts[c].chunk},
                                ![c].inFlight = @ - 1]
    /\ UNCHANGED <<pc, argVars, loopVars, result, thrown, progress, raised>>
    /\ UNCHANGED queryVars

\* The executor rejects: it could not run the unit of work, the unit of work
\* rejected (the transaction is rolled back and the work's error passed on),
\* or the commit failed.
ExecutorRejects(c, error) ==
    /\ pc[c] = "awaitTx"
    /\ \/ tx[c].state \in {"invoked", "workResolved"}
       \/ tx[c].state = "workRejected" /\ error = tx[c].error
    /\ tx' = [tx EXCEPT ![c].state = "failed", ![c].error = error]
    /\ attempts' = [attempts EXCEPT ![c] = Failed(@)]
    /\ ledger' = [ledger EXCEPT ![c].inFlight = @ - 1]
    /\ UNCHANGED <<pc, argVars, loopVars, result, thrown, progress, raised>>
    /\ UNCHANGED queryVars

\* ---------------------------------------------------- executeBatch resumes
\* The argument executeBatch passes to onProgress after a successful attempt.
ProgressReportOfFirstCall(c, processed) ==
    [currentBatch |-> batchIndex[c] + 1, totalBatches |-> Len(batches[1]),
     itemsProcessed |-> processed, totalItems |-> Len(items[1])]

ProgressReport(c, processed) ==
    [currentBatch |-> batchIndex[c] + 1, totalBatches |-> Len(batches[c]),
     itemsProcessed |-> processed, totalItems |-> Len(items[c])]

\* The onProgress invocations after one more, made with report.
Reported(log, report) == [count |-> log.count + 1, last |-> report]

\* RETRY_DELAY_MS * Math.pow(2, retryCount - 1)
BackoffDelay(rc) == RETRY_DELAY_MS * Pow2(rc - 1)

\* retryCount === maxRetries
RetriesExhausted(rc, maxR) == rc = maxR

\* retryCount++
RetryCountStaysPut(rc) == rc

NextRetryCount(rc) == rc + 1

\* The catch block: normalise the error, then throw it or start the backoff.
Catch(c, error) ==
    /\ lastError' = [lastError EXCEPT ![c] = NormalizeError(error)]
    /\ raised' = [raised EXCEPT ![c] = error]
    /\ IF RetriesExhausted(retryCount[c], maxRetries[c])
       THEN /\ pc' = [pc EXCEPT ![c] = "aborted"]
            /\ thrown' = [thrown EXCEPT ![c] = NormalizeError(error)]
            /\ UNCHANGED <<retryCount, delay>>
       ELSE /\ pc' = [pc EXCEPT ![c] = "backoff"]
            /\ retryCount' = [retryCount EXCEPT ![c] = NextRetryCount(@)]
            /\ delay' = [delay EXCEPT ![c] = BackoffDelay(NextRetryCount(retryCount[c]))]
            /\ UNCHANGED thrown

\* The awaited transaction resolved: count the chunk, report progress (the
\* callback returns), break, and go on with the next chunk or return.
OnSuccess(c) ==
    /\ pc[c] = "awaitTx"
    /\ tx[c].state = "committed"
    /\ LET processed == processedItems[c] + Len(CurrentBatch(c))
       IN /\ processedItems' = [processedItems EXCEPT ![c] = processed]
          /\ progress' = [progress EXCEPT ![c] =
                 IF options[c].onProgress
                 THEN Reported(@, ProgressReport(c, processed)) ELSE @]
          /\ UNCHANGED <<argVars, delay, thrown, raised>>
          /\ Resume(c, LoopPoint(Len(batches[c]), maxRetries[c], batchIndex[c] + 1, 0),
                    processed)
    /\ lastError' = [lastError EXCEPT ![c] = NoError]
    /\ UNCHANGED queryVars

\* The awaited transaction resolved, the chunk is counted, and the onProgress
\* callback throws: the try block's catch takes the callback's error.
OnProgressThrows(c, error) ==
    /\ pc[c] = "awaitTx"
    /\ tx[c].state = "committed"
    /\ options[c].onProgress
    /\ LET processed == processedItems[c] + Len(CurrentBatch(c))
       IN /\ processedItems' = [processedItems EXCEPT ![c] = processed]
          /\ progress' = [progress EXCEPT ![c] = Reported(@, ProgressReport(c, processed))]
    /\ Catch(c, error)
    /\ UNCHANGED <<argVars, batchIndex, result, tx, attempts, ledger>>
    /\ UNCHANGED queryVars

\* The awaited transaction rejected.
OnFailure(c) ==
    /\ pc[c] = "awaitTx"
    /\ tx[c].state = "failed"
    /\ Catch(c, tx[c].error)
    /\ UNCHANGED <<argVars, processedItems, batchIndex, result, tx, attempts, ledger,
                   progress>>
    /\ UNCHANGED queryVars

\* The backoff timer fires and the while loop goes round.
BackoffDone(c) ==
    /\ pc[c] = "backoff"
    /\ UNCHANGED <<argVars, processedItems, lastError, delay, thrown, progress, raised>>
    /\ Resume(c, LoopPoint(Len(batches[c]), maxRetries[c], batchIndex[c], retryCount[c]),
              processedItems[c])
    /\ UNCHANGED queryVars

Next ==
    \E c \in Calls :
        \/ Call(c)
        \/ ExecutorRunsWork(c)
        \/ \E i \in 1..MaxItems : RunResolves(c, i)
        \/ \E i \in 1..MaxItems, error \in RaisedValues : RunRejects(c, i, error)
        \/ ExecutorCommits(c)
        \/ \E error \in RaisedValues : ExecutorRejects(c, error)
        \/ OnSuccess(c)
        \/ \E error \in RaisedValues : OnProgressThrows(c, error)
        \/ OnFailure(c)
        \/ BackoffDone(c)

Spec == Init /\ [][Next]_vars

\* Every executor invocation, item query and backoff wait eventually
\* completes, and the call's own continuations run.
FairSpec == Spec /\ WF_vars(Next)

\* ------------------------------------------------ two interleaved calls
\* Two executeBatch calls are under way at once: every await of one call is
\* a point where the other call, the executor and the timers may run.
TwoCallItemLists == {<<1>>, <<1, 2>>}
TwoCallOptionSets ==
    [batchSize : {Num(1)}, maxRetries : {Num(0), Num(1)},
     onProgress : BOOLEAN]

InitTwoCalls ==
    /\ pc = [c \in Calls |-> "idle"]
    /\ items = [c \in Calls |-> <<>>]
    /\ options = [c \in Calls |-> [batchSize |-> Undefined, maxRetries |-> Undefined,
                                   onProgress |-> FALSE]]
    /\ batchSize = [c \in Calls |-> 0]
    /\ maxRetries = [c \in Calls |-> 0]
    /\ batches = [c \in Calls |-> <<>>]
    /\ processedItems = [c \in Calls |-> 0]
    /\ batchIndex = [c \in Calls |-> 0]
    /\ retryCount = [c \in Calls |-> 0]
    /\ lastError = [c \in Calls |-> NoError]
    /\ delay = [c \in Calls |-> 0]
    /\ result = [c \in Calls |-> NoResult]
    /\ thrown = [c \in Calls |-> NoError]
    /\ tx = [c \in Calls |-> NoTx]
    /\ attempts = [c \in Calls |-> NoAttempts]
    /\ ledger = [c \in Calls |-> NoLedger]
    /\ progress = [c \in Calls |-> NoProgress]
    /\ raised = [c \in Calls |-> NoError]
    /\ request = NoRequest
    /\ outcome = NoOutcome
    /\ store = NoStore

NextTwoCalls ==
    \E c \in Calls :
        \/ \E its \in TwoCallItemLists, opts \in TwoCallOptionSets : CallWith(c, its, opts)
        \/ ExecutorRunsWork(c)
        \/ \E i \in 1..MaxItems : RunResolves(c, i)
        \/ \E i \in 1..MaxItems, error \in RaisedValues : RunRejects(c, i, error)
        \/ ExecutorCommits(c)
        \/ \E error \in RaisedValues : ExecutorRejects(c, error)
        \/ OnSuccess(c)
        \/ \E error \in RaisedValues : OnProgressThrows(c, error)
        \/ OnFailure(c)
        \/ BackoffDone(c)

SpecTwoCalls == InitTwoCalls /\ [][NextTwoCalls]_vars

\* ------------------------------------------------------------------------
\* Properties of executeBatch
\* ------------------------------------------------------------------------
Started(c) == pc[c] \notin {"idle", "unused"}

\* The call was refused by the validation of its options.
Refused(c) == pc[c] = "aborted" /\ thrown[c] \in {BatchSizeError, MaxRetriesError}

\* The call got past validation and the empty-input return: it has chunks.
Chunked(c) == Started(c) /\ ~Refused(c) /\ Len(items[c]) > 0

\* The call threw because a chunk ran out of attempts.
Exhausted(c) == pc[c] = "aborted" /\ ~Refused(c)

CeilDiv(n, d) == (n + d - 1) \div d

\* C1: every chunk is attempted at most maxRetries+1 times; a chunk that
\* fails on every attempt causes exactly maxRetries+1 executor invocations,
\* and a chunk that first succeeds on attempt j causes exactly j.
C1_AttemptsPerChunk ==
    \A c \in Calls :
        Chunked(c) =>
            /\ attempts[c].invoked <= maxRetries[c] + 1
            /\ (Exhausted(c) /\ attempts[c].committed = 0)
                   => attempts[c].invoked = maxRetries[c] + 1
            /\ attempts[c].firstCommit > 0
                   => attempts[c].invoked = attempts[c].firstCommit

\* C2: when the call ends with an error at chunk k, chunks 1..k-1 are
\* committed, chunk k is not committed, and no chunk after k was ever
\* handed to the executor.
C2_FailFast ==
    \A c \in Calls :
        Exhausted(c) =>
            LET k == batchIndex[c] + 1
            IN /\ \A j \in 1..(k - 1) : j \in ledger[c].committed
               /\ k \notin ledger[c].committed
               /\ \A j \in (k + 1)..Len(batches[c]) : j \notin ledger[c].invoked

\* C3: chunks are processed in order and one at a time: chunk N+1 is first
\* attempted only after an attempt of chunk N succeeded, a chunk is retried
\* only after its previous attempt failed (all its attempts but the latest
\* have failed), and at most one transaction is in flight.
C3_Sequential ==
    \A c \in Calls :
        /\ ledger[c].inFlight <= 1
        /\ \A k \in ledger[c].invoked : k > 1 => (k - 1) \in ledger[c].committed
        /\ attempts[c].invoked - attempts[c].failed <= 1

\* C4: an attempt opens one write transaction, issues run exactly once for
\* every item of the chunk, all before any is awaited, and the unit of work
\* does not settle while an item query is still in flight, also when one of
\* the item queries fails.
C4_TransactionAwaitsAllItems ==
    \A c \in Calls :
        pc[c] = "awaitTx" =>
            /\ tx[c].opened <= 1
            /\ tx[c].state \in {"open", "workResolved", "workRejected", "committed"}
                   => /\ tx[c].opened = 1
                      /\ Len(tx[c].runs) = Len(CurrentBatch(c))
                      /\ \A i \in 1..Len(tx[c].runs) :
                             tx[c].runs[i].item = CurrentBatch(c)[i]
            /\ tx[c].state \in {"workResolved", "workRejected", "committed", "failed"}
                   => \A i \in 1..Len(tx[c].runs) : tx[c].runs[i].status # "pending"

\* C5: a batchSize that is not a positive integer or a maxRetries that is
\* not a non-negative integer makes the call fail with the invalid-argument
\* error before the executor is invoked, whatever the items; maxRetries = 0
\* is accepted and gives one attempt per chunk.
IsPositiveInteger(x) == \E n \in 1..x.num : x.num = n * x.den
IsNonNegativeInteger(x) == \E n \in 0..x.num : x.num = n * x.den

C5_InvalidOptionsRefused ==
    \A c \in Calls :
        Started(c) =>
            LET bsOk == ~options[c].batchSize.def
                            \/ IsPositiveInteger(options[c].batchSize)
                mrOk == ~options[c].maxRetries.def
                            \/ IsNonNegativeInteger(options[c].maxRetries)
            IN /\ ~bsOk => /\ pc[c] = "aborted"
                            /\ thrown[c] = BatchSizeError
               /\ (bsOk /\ ~mrOk) => /\ pc[c] = "aborted"
                                      /\ thrown[c] = MaxRetriesError
               /\ (~bsOk \/ ~mrOk) => /\ ledger[c] = NoLedger
                                       /\ attempts[c] = NoAttempts
                                       /\ tx[c] = NoTx
               /\ (bsOk /\ mrOk) => ~Refused(c)
               /\ (bsOk /\ options[c].maxRetries = Num(0)) => attempts[c].invoked <= 1

C5_Witness ==
    \E c \in Calls :
        /\ Refused(c)
        /\ options[c].batchSize = Frac(3, 2)
        /\ Len(items[c]) > 0

\* C6: onProgress is invoked exactly once per chunk, only after the chunk
\* succeeded, in chunk order with currentBatch = 1, 2, ...; itemsProcessed is
\* the cumulative size of chunks 1..currentBatch and reaches totalItems on the
\* last report; totalBatches and totalItems are the same in every report.
\* (Stated of the latest report in every state, so of every report.)
C6_ProgressReports ==
    \A c \in Calls :
        /\ ~options[c].onProgress => progress[c].count = 0
        /\ (options[c].onProgress /\ Chunked(c) /\ progress[c].count > 0) =>
               /\ progress[c].last.currentBatch = progress[c].count
               /\ progress[c].last.currentBatch \in ledger[c].committed
               /\ progress[c].last.totalBatches = Len(batches[c])
               /\ progress[c].last.totalItems = Len(items[c])
               /\ progress[c].last.itemsProcessed
                      = Min(progress[c].count * batchSize[c], Len(items[c]))
        /\ (options[c].onProgress /\ Chunked(c) /\ pc[c] = "done") =>
               /\ progress[c].count = Len(batches[c])
               /\ progress[c].last.itemsProcessed = Len(items[c])

\* C7: when a chunk exhausts its retries, the call throws the error raised
\* by the final attempt: the same Error object if an Error was raised, else
\* a new Error whose message is the raised value as a string.
C7_LastErrorUnmodified ==
    \A c \in Calls :
        Exhausted(c) =>
            /\ tx[c].state = "failed" => raised[c] = tx[c].error
            /\ raised[c] \in RaisedValues
            /\ thrown[c] = IF raised[c].type = "Error" THEN raised[c]
                           ELSE [type |-> "Error", id |-> "fresh",
                                 message |-> raised[c].message]

C7_Witness ==
    \E c \in Calls :
        /\ Exhausted(c)
        /\ retryCount[c] >= 1
        /\ attempts[c].failed = attempts[c].invoked
        /\ tx[c].state = "failed"
        /\ raised[c] = ErrorA
        /\ thrown[c] = ErrorA

\* C8: a call that returns normally returns succeeded = number of items and
\* totalBatches = ceil(n / batchSize); for no items it returns
\* {succeeded: 0, totalBatches: 0} without invoking the executor.
C8_ResultCountsItems ==
    \A c \in Calls :
        pc[c] = "done" =>
            /\ result[c].succeeded = Len(items[c])
            /\ result[c].totalBatches = CeilDiv(Len(items[c]), batchSize[c])
            /\ Len(items[c]) = 0 =>
                   /\ result[c] = [succeeded |-> 0, totalBatches |-> 0]
                   /\ ledger[c] = NoLedger

\* C9: chunk i holds exactly items (i-1)*batchSize+1 .. min(i*batchSize, n):
\* at most batchSize items, exactly batchSize in every chunk but the last,
\* no empty chunk, and the chunks concatenated give the items list.
RECURSIVE Flatten(_)
Flatten(chunks) ==
    IF chunks = <<>> THEN <<>> ELSE Head(chunks) \o Flatten(Tail(chunks))

C9_Chunking ==
    \A c \in Calls :
        Chunked(c) =>
            LET n == Len(items[c])
                size == batchSize[c]
            IN /\ Len(batches[c]) = CeilDiv(n, size)
               /\ \A i \in 1..Len(batches[c]) :
                      /\ batches[c][i] =
                             [j \in 1..(Min(i * size, n) - (i - 1) * size) |->
                                  items[c][(i - 1) * size + j]]
                      /\ Len(batches[c][i]) >= 1
                      /\ Len(batches[c][i]) <= size
                      /\ i < Len(batches[c]) => Len(batches[c][i]) = size
               /\ Flatten(batches[c]) = items[c]

C9_Witness ==
    \E c \in Calls :
        /\ Chunked(c)
        /\ Len(items[c]) = 3
        /\ batchSize[c] = 2
        /\ batches[c] = << <<1, 2>>, <<3>> >>

\* C10: when every executor invocation and backoff wait completes, a call
\* with valid options reaches a terminal outcome: it returns or it throws.
C10_Terminates ==
    \A c \in Calls :
        (pc[c] \in {"awaitTx", "backoff"}) ~> (pc[c] \in {"done", "aborted"})

C10_Witness ==
    \E c \in Calls :
        /\ pc[c] = "done"
        /\ Len(batches[c]) >= 2
        /\ attempts[c].failed >= 1


\* ------------------------------------------------------------------------
\* Properties of interleaved executeBatch calls
\* ------------------------------------------------------------------------
\* Everything one call holds: its arguments, its locals, what it returned or
\* threw, and the executor's and the callback's record of it.
CallState(c) ==
    <<pc[c], items[c], options[c], batchSize[c], maxRetries[c], batches[c],
      processedItems[c], batchIndex[c], retryCount[c], lastError[c], delay[c],
      result[c], thrown[c], tx[c], attempts[c], ledger[c], progress[c], raised[c]>>

\* A step of one call leaves everything the other calls hold as it was.
StepOfOneCall ==
    \A c \in Calls :
        CallState(c)' # CallState(c) =>
            \A d \in Calls \ {c} : CallState(d)' = CallState(d)

\* What call c holds follows from its own items and options and from the
\* outcomes of its own executor invocations, as in a run of c alone.
OwnRun(c) ==
    /\ Chunked(c) =>
          /\ batchSize[c] = IntOf(Coalesce(options[c].batchSize, DEFAULT_BATCH_SIZE))
          /\ maxRetries[c] = IntOf(Coalesce(options[c].maxRetries, DEFAULT_MAX_RETRIES))
          /\ batches[c] = chunkArray(items[c], batchSize[c])
    /\ tx[c].state \in {"open", "workResolved", "workRejected"} =>
          [i \in 1..Len(tx[c].runs) |-> tx[c].runs[i].item] = batches[c][batchIndex[c] + 1]
    /\ pc[c] = "awaitTx" => attempts[c].invoked = retryCount[c] + 1
    /\ pc[c] = "backoff" =>
          /\ attempts[c].invoked = retryCount[c]
          /\ delay[c] = BackoffDelay(retryCount[c])
    /\ progress[c].count > 0 =>
          /\ options[c].onProgress
          /\ progress[c].last.totalItems = Len(items[c])
          /\ progress[c].last.totalBatches = Len(batches[c])
          /\ progress[c].last.itemsProcessed = processedItems[c]
    /\ pc[c] = "done" =>
          result[c] = [succeeded |-> processedItems[c], totalBatches |-> Len(batches[c])]
    /\ Exhausted(c) => thrown[c] = NormalizeError(raised[c])
    /\ Refused(c) =>
          thrown[c] = IF ~ValidBatchSize(Coalesce(options[c].batchSize, DEFAULT_BATCH_SIZE))
                      THEN BatchSizeError ELSE MaxRetriesError

\* C11: two executeBatch calls whose steps interleave share no state: a step
\* of one call changes nothing the other call holds, and the chunking, retry
\* count, progress reports, result and thrown error of each call are those
\* of its own items, options and executor outcomes.
C11_CallsIndependent ==
    /\ [][StepOfOneCall]_vars
    /\ [](\A c \in Calls : OwnRun(c))

\* Both calls are under way with different items, one waiting out a backoff
\* and the other having reported progress and retried a different number of
\* times.
C11_Witness ==
    /\ pc[1] = "backoff"
    /\ pc[2] = "awaitTx"
    /\ Len(items[1]) # Len(items[2])
    /\ progress[2].count > 0
    /\ retryCount[1] # retryCount[2]


\* ========================================================================
\* Part 2: the Cypher query generators (lib/cypher/validators.ts, utils.ts,
\* node-generator.ts, relationship-generator.ts).  A string is the sequence
\* of its characters; a text built by a template literal is the sequence of
\* the template's fixed pieces, each kept whole, and of the characters of
\* the strings interpolated between them.
\* ========================================================================
Upper == {"A", "B", "C", "D", "E", "F", "G", "H", "I", "J", "K", "L", "M", "N", "O",
          "P", "Q", "R", "S", "T", "U", "V", "W", "X", "Y", "Z"}
Lower == {"a", "b", "c", "d", "e", "f", "g", "h", "i", "j", "k", "l", "m", "n", "o",
          "p", "q", "r", "s", "t", "u", "v", "w", "x", "y", "z"}
Digit == {"0", "1", "2", "3", "4", "5", "6", "7", "8", "9"}

\* /^[A-Za-z_][A-Za-z0-9_]*$/.test(label)
isValidNeo4jLabelChecksFirstCharacterOnly(label) ==
    /\ Len(label) >= 1
    /\ label[1] \in Upper \cup Lower \cup {"_"}

isValidNeo4jLabel(label) ==
    /\ Len(label) >= 1
    /\ label[1] \in Upper \cup Lower \cup {"_"}
    /\ \A i \in 2..Len(label) : label[i] \in Upper \cup Lower \cup Digit \cup {"_"}

\* ------------------------------------------------------------ the strings
Person == <<"P", "e", "r", "s", "o", "n">>
BankAccount == <<"B", "a", "n", "k", "A", "c", "c", "o", "u", "n", "t">>
Bank == <<"B", "a", "n", "k">>
Company == <<"C", "o", "m", "p", "a", "n", "y">>
Transaction == <<"T", "r", "a", "n", "s", "a", "c", "t", "i", "o", "n">>
person_id == <<"p", "e", "r", "s", "o", "n", "_", "i", "d">>
iban == <<"i", "b", "a", "n">>
bank_id == <<"b", "a", "n", "k", "_", "i", "d">>
company_id == <<"c", "o", "m", "p", "a", "n", "y", "_", "i", "d">>
transaction_id == <<"t", "r", "a", "n", "s", "a", "c", "t", "i", "o", "n", "_", "i", "d">>
dataset_id == <<"d", "a", "t", "a", "s", "e", "t", "_", "i", "d">>
propsKey == <<"p", "r", "o", "p", "s">>

\* --------------------------------------------------- values and objects
\* A JavaScript value: its type and, for a string, its characters.
UndefinedValue == [type |-> "undefined", text |-> <<>>]
NullValue == [type |-> "null", text |-> <<>>]
Str(chars) == [type |-> "string", text |-> chars]
Bool(b) == [type |-> "boolean", text |-> IF b THEN <<"true">> ELSE <<"false">>]

\* value ? ... : ...   and   !value
Truthy(value) ==
    CASE value.type = "string" -> Len(value.text) > 0
      [] value.type = "boolean" -> value.text = <<"true">>
      [] value.type = "function" -> TRUE
      [] OTHER -> FALSE

\* const { x = dflt } = options || {}
Default(value, dflt) == IF value.type = "undefined" THEN dflt ELSE value

\* An object is the function from its own keys to their values.
\* { ...obj, [key]: value }
WithEntry(obj, key, value) ==
    [k \in DOMAIN obj \cup {key} |-> IF k = key THEN value ELSE obj[k]]

\* Object.fromEntries(Object.entries(data).filter(([, value]) => value !== undefined))
filterUndefinedValues(data) ==
    [key \in {k \in DOMAIN data : data[k].type # "undefined"} |-> data[key]]

\* ---------------------------------------------- the unique identifiers
UNIQUE_IDENTIFIERS ==
    (Person :> person_id) @@ (BankAccount :> iban) @@ (Bank :> bank_id)
        @@ (Company :> company_id) @@ (Transaction :> transaction_id)

\* What the object literal UNIQUE_IDENTIFIERS inherits from Object.prototype:
\* the property named constructor is the function Object, which as a property
\* key or in a template literal is the string String(Object).
constructor == <<"c", "o", "n", "s", "t", "r", "u", "c", "t", "o", "r">>
NativeCode == <<"function Object() { [native code] }">>
ObjectPrototype == (constructor :> [type |-> "function", text |-> NativeCode])

\* UNIQUE_IDENTIFIERS[entityType]: the own entry, else the inherited
\* property, else undefined
UniqueIdentifierEntry(entityType) ==
    IF entityType \in DOMAIN UNIQUE_IDENTIFIERS THEN Str(UNIQUE_IDENTIFIERS[entityType])
    ELSE IF entityType \in DOMAIN ObjectPrototype THEN ObjectPrototype[entityType]
    ELSE UndefinedValue

\* ------------------------------------------------------- node-generator.ts
\* What a generator call comes to: { query, params }, or a thrown Error.
Returned(query, params) ==
    [kind |-> "returned", query |-> query, params |-> params, message |-> <<>>]
Threw(message) ==
    [kind |-> "threw", query |-> <<>>, params |-> <<>>, message |-> message]

InvalidIdentifier(identifier, identifierType) ==
    Threw(<<"Invalid Neo4j ", identifierType, ": \"">> \o identifier
          \o <<"\". ", IF identifierType = "label" THEN "Labels" ELSE "Relationship types",
               " must start with a letter or underscore and contain only alphanumeric characters and underscores.">>)

prepareNodeProperties(data, datasetId) ==
    IF Truthy(datasetId)
    THEN WithEntry(filterUndefinedValues(data), dataset_id, datasetId)
    ELSE filterUndefinedValues(data)

buildCreateQuery(entityType, props) ==
    Returned(<<"CREATE (n:">> \o entityType \o <<") SET n = $props RETURN n">>,
             propsKey :> props)

buildMergeQueryCreates(entityType, props) == buildCreateQuery(entityType, props)

buildMergeQueryReplaces(entityType, props) ==
    LET uniqueIdField == UniqueIdentifierEntry(entityType)
    IN IF ~Truthy(uniqueIdField) \/ uniqueIdField.text \notin DOMAIN props
       THEN Threw(<<"Unknown entity type: \"">> \o entityType)
       ELSE Returned(<<"MERGE (n:">> \o entityType \o <<" {">> \o uniqueIdField.text
                         \o <<": $">> \o uniqueIdField.text
                         \o <<"}) SET n = $props RETURN n">>,
                     (propsKey :> props)
                         @@ (uniqueIdField.text :> props[uniqueIdField.text]))

buildMergeQuery(entityType, props) ==
    LET uniqueIdField == UniqueIdentifierEntry(entityType)
    IN IF ~Truthy(uniqueIdField)
       THEN Threw(<<"Unknown entity type: \"">> \o entityType
                  \o <<"\". Cannot determine unique identifier for MERGE operation.">>)
       ELSE IF uniqueIdField.text \notin DOMAIN props
       THEN Threw(<<"Missing required unique identifier \"">> \o uniqueIdField.text
                  \o <<"\" for MERGE operation on ">> \o entityType)
       ELSE Returned(<<"MERGE (n:">> \o entityType \o <<" {">> \o uniqueIdField.text
                         \o <<": $">> \o uniqueIdField.text
                         \o <<"}) SET n += $props RETURN n">>,
                     (propsKey :> props)
                         @@ (uniqueIdField.text :> props[uniqueIdField.text]))

generateNodeQuery(entityType, data, opts) ==
    IF Len(entityType) = 0 \/ ~isValidNeo4jLabel(entityType)
    THEN InvalidIdentifier(entityType, "label")
    ELSE LET merge == Default(opts.merge, Bool(FALSE))
             props == prepareNodeProperties(data, opts.datasetId)
         IN IF Truthy(merge) THEN buildMergeQuery(entityType, props)
            ELSE buildCreateQuery(entityType, props)

\* ------------------------------------------------ utils.ts, shared helpers
\* obj[key]: the own property, else undefined
Get(obj, key) == IF key \in DOMAIN obj THEN obj[key] ELSE UndefinedValue

\* validateNeo4jIdentifier(identifier, identifierType) throws
InvalidNeo4jIdentifier(identifier) == Len(identifier) = 0 \/ ~isValidNeo4jLabel(identifier)

\* the Error getUniqueIdentifierField throws
UnknownEntityType(entityType) ==
    Threw(<<"Unknown entity type: \"">> \o entityType
          \o <<"\". Cannot determine unique identifier. Supported types: ",
               "Person, BankAccount, Bank, Company, Transaction">>)

\* ----------------------------------------------- relationship-generator.ts
\* A NodeIdentifier is its entityType and the object of its other fields.
\* the Error extractNodeIdentifier throws
MissingIdentifier(node, uniqueIdField) ==
    Threw(<<"Missing required identifier \"">> \o uniqueIdField
          \o <<"\" for ">> \o node.entityType)

\* const identifierValue = node[uniqueIdField]
extractNodeIdentifier(node, uniqueIdField) == Get(node.fields, uniqueIdField)

\* The prepared properties, or undefined when there are none: properties
\* left out and properties {} are alike (properties ? filter(properties) : {}).
prepareRelationshipProperties(properties, datasetId) ==
    LET filteredProps == filterUndefinedValues(properties)
        hasProps == DOMAIN filteredProps # {}
    IN IF ~hasProps /\ ~Truthy(datasetId)
       THEN [type |-> "undefined", text |-> <<>>, entries |-> <<>>]
       ELSE [type |-> "object", text |-> <<>>,
             entries |-> IF Truthy(datasetId)
                         THEN WithEntry(filteredProps, dataset_id, datasetId)
                         ELSE filteredProps]

buildMatchClausesInlinesIdentifiers(sourceNode, targetNode, fromIdField, toIdField) ==
    <<"MATCH (from:">> \o sourceNode.entityType \o <<" {">> \o fromIdField \o <<": '">>
        \o Get(sourceNode.fields, fromIdField).text \o <<"'})", "\n",
           "MATCH (to:">> \o targetNode.entityType \o <<" {">> \o toIdField \o <<": '">>
        \o Get(targetNode.fields, toIdField).text \o <<"'})">>

buildMatchClauses(sourceNode, targetNode, fromIdField, toIdField) ==
    <<"MATCH (from:">> \o sourceNode.entityType \o <<" {">> \o fromIdField
        \o <<": $fromId})", "\n",
           "MATCH (to:">> \o targetNode.entityType \o <<" {">> \o toIdField
        \o <<": $toId})">>

fromIdKey == <<"f", "r", "o", "m", "I", "d">>
toIdKey == <<"t", "o", "I", "d">>

\* params = { fromId, toId }; if (props) params.props = props
RelationshipParams(props, fromId, toId) ==
    IF props.type = "object"
    THEN (fromIdKey :> fromId) @@ (toIdKey :> toId) @@ (propsKey :> props.entries)
    ELSE (fromIdKey :> fromId) @@ (toIdKey :> toId)

buildCreateRelationshipQuery(relationshipType, matchClauses, props, fromId, toId) ==
    Returned(matchClauses \o <<"\n", "CREATE (from)-[r:">> \o relationshipType \o <<"]->(to)">>
                 \o (IF props.type = "object" THEN <<"\nSET r = $props">> ELSE <<>>)
                 \o <<"\nRETURN r">>,
             RelationshipParams(props, fromId, toId))

buildMergeRelationshipQuery(relationshipType, matchClauses, props, fromId, toId) ==
    Returned(matchClauses \o <<"\n", "MERGE (from)-[r:">> \o relationshipType \o <<"]->(to)">>
                 \o (IF props.type = "object" THEN <<"\nSET r += $props">> ELSE <<>>)
                 \o <<"\nRETURN r">>,
             RelationshipParams(props, fromId, toId))

generateRelationshipQuery(relationshipType, sourceNode, targetNode, opts) ==
    LET merge == Default(opts.merge, Bool(FALSE))
        fromIdField == UniqueIdentifierEntry(sourceNode.entityType)
        toIdField == UniqueIdentifierEntry(targetNode.entityType)
        fromId == extractNodeIdentifier(sourceNode, fromIdField.text)
        toId == extractNodeIdentifier(targetNode, toIdField.text)
        props == prepareRelationshipProperties(opts.properties, opts.datasetId)
        matchClauses == buildMatchClauses(sourceNode, targetNode, fromIdField.text,
                                          toIdField.text)
    IN IF InvalidNeo4jIdentifier(relationshipType)
       THEN InvalidIdentifier(relationshipType, "relationship type")
       ELSE IF InvalidNeo4jIdentifier(sourceNode.entityType)
       THEN InvalidIdentifier(sourceNode.entityType, "label")
       ELSE IF InvalidNeo4jIdentifier(targetNode.entityType)
       THEN InvalidIdentifier(targetNode.entityType, "label")
       ELSE IF ~Truthy(fromIdField) THEN UnknownEntityType(sourceNode.entityType)
       ELSE IF ~Truthy(toIdField) THEN UnknownEntityType(targetNode.entityType)
       ELSE IF fromId.type = "undefined" THEN MissingIdentifier(sourceNode, fromIdField.text)
       ELSE IF toId.type = "undefined" THEN MissingIdentifier(targetNode, toIdField.text)
       ELSE IF Truthy(merge)
       THEN buildMergeRelationshipQuery(relationshipType, matchClauses, props, fromId, toId)
       ELSE buildCreateRelationshipQuery(relationshipType, matchClauses, props, fromId, toId)

\* ------------------------------- generateRelationshipCypher (csv-parser.ts)
\* A number, by its decimal notation.
Number(digits) == [type |-> "number", text |-> digits]

\* JSON.stringify(value) of null and of a boolean
JSONStringify(value) ==
    IF value.type = "null" THEN <<"n", "u", "l", "l">> ELSE value.text

\* array.join(separator) of texts
RECURSIVE Join(_, _)
Join(texts, separator) ==
    IF Len(texts) = 0 THEN <<>>
    ELSE IF Len(texts) = 1 THEN texts[1]
    ELSE texts[1] \o separator \o Join(Tail(texts), separator)

\* One pushed element of props for an entry [key, value] of
\* relationship.properties, by typeof value.
PropertyText(entry) ==
    IF entry.value.type = "string"
    THEN entry.key \o <<": ", "'">> \o entry.value.text \o <<"'">>
    ELSE IF entry.value.type = "number"
    THEN entry.key \o <<": ">> \o entry.value.text
    ELSE entry.key \o <<": ">> \o JSONStringify(entry.value)

\* srcId, tgtId: useParameters ? '$sourceId' : `'${sourceId}'`
IdText(useParameters, placeholder, id) ==
    IF Truthy(useParameters) THEN <<placeholder>> ELSE <<"'">> \o id \o <<"'">>

\* relationship.properties is the sequence of its entries, in insertion
\* order; the property left out and the object {} are alike.
generateRelationshipCypher(relationship, sourceId, targetId, opts) ==
    LET useMerge == Default(opts.useMerge, Bool(FALSE))
        useParameters == Default(opts.useParameters, Bool(FALSE))
        srcId == IdText(useParameters, "$sourceId", sourceId)
        tgtId == IdText(useParameters, "$targetId", targetId)
        props == <<<<"confidence: ">> \o relationship.confidence.text>>
                     \o [i \in 1..Len(relationship.properties) |->
                            PropertyText(relationship.properties[i])]
        propsStr == <<" {">> \o Join(props, <<", ">>) \o <<"}">>
        command == IF Truthy(useMerge) THEN "MERGE" ELSE "CREATE"
    IN Returned(<<"MATCH (s:">> \o relationship.sourceEntity \o <<" {id: ">> \o srcId
                    \o <<"}), (t:">> \o relationship.targetEntity \o <<" {id: ">> \o tgtId
                    \o <<"})", "\n", command, " (s)-[:">> \o relationship.type \o propsStr
                    \o <<"]->(t)">>,
                <<>>)

\* ------------------------------------------------------- the graph store
\* The store the node queries are run against, with match-or-create
\* semantics for MERGE: its nodes (each an id, a label and its properties),
\* the nodes before the latest statement, the parameters of the statement
\* before the latest, and the number of statements run.
RECURSIVE IndexOf(_, _, _)
IndexOf(text, piece, i) ==
    IF i > Len(text) THEN 0
    ELSE IF text[i] = piece THEN i
    ELSE IndexOf(text, piece, i + 1)

\* The statement the store reads off the text of a node query:
\*   CREATE (n:<label>) SET n = $props RETURN n
\*   MERGE (n:<label> {<key>: $<param>}) SET n += $props RETURN n
ParseNodeQuery(query) ==
    LET brace == IndexOf(query, " {", 1)
        colon == IndexOf(query, ": $", 1)
    IN [command |-> IF query[1] = "MERGE (n:" THEN "MERGE" ELSE "CREATE",
        label |-> IF brace = 0 THEN SubSeq(query, 2, Len(query) - 1)
                  ELSE SubSeq(query, 2, brace - 1),
        key |-> IF brace = 0 THEN <<>> ELSE SubSeq(query, brace + 1, colon - 1),
        param |-> IF brace = 0 THEN <<>> ELSE SubSeq(query, colon + 1, Len(query) - 1),
        set |-> IF query[Len(query)] \in {") SET n += $props RETURN n",
                                          "}) SET n += $props RETURN n"}
                THEN "+=" ELSE "="]

\* SET n += map: the map's entries are added to the node's, replacing those
\* of the same key
Overlay(old, new) ==
    [k \in DOMAIN old \cup DOMAIN new |-> IF k \in DOMAIN new THEN new[k] ELSE old[k]]

\* The nodes MERGE (n:<label> {<key>: $<param>}) matches.
Matching(nodes, statement, params) ==
    {n \in nodes : /\ n.label = statement.label
                   /\ Get(n.props, statement.key).type # "undefined"
                   /\ Get(n.props, statement.key) = params[statement.param]}

\* The nodes of the store after it has run the query with its parameters.
RunNodeQuery(nodes, query, params) ==
    LET statement == ParseNodeQuery(query)
        matched == IF statement.command = "MERGE"
                   THEN Matching(nodes, statement, params) ELSE {}
        created == [id |-> Cardinality(nodes) + 1, label |-> statement.label,
                    props |-> IF statement.command = "MERGE"
                              THEN statement.key :> params[statement.param]
                              ELSE <<>>]
        bound == IF matched = {} THEN {created} ELSE matched
    IN (nodes \ matched)
           \cup {[n EXCEPT !.props = IF statement.set = "+=" THEN Overlay(@, params[propsKey])
                                     ELSE params[propsKey]] : n \in bound}

\* ------------------------------------------- the generator calls modelled
MaxExecutions == 2      \* most statements run against one store

Account == <<"A", "c", "c", "o", "u", "n", "t">>
OWNS == <<"O", "W", "N", "S">>
name == <<"n", "a", "m", "e">>
since == <<"s", "i", "n", "c", "e">>

\* All objects with keys among keys and values among values.
ObjectsOver(keys, values) == UNION {[ks -> values] : ks \in SUBSET keys}

\* Entity types: registered, valid but unregistered (one of them a property
\* every object inherits), empty, and not an identifier.
NodeEntityTypes ==
    {Person, Account, <<"_", "p", "1">>, constructor, <<>>, <<"1", "P">>, <<"P", ";">>}
DataValues == {UndefinedValue, NullValue, Str(<<"P", "1">>), Str(<<"O", "'", "B">>)}
DatasetIds == {UndefinedValue, Str(<<>>), Str(<<"d", "1">>)}
MergeFlags == {UndefinedValue, Bool(FALSE), Bool(TRUE)}
NodeData ==
    ObjectsOver({person_id, name}, DataValues)
        \cup {(person_id :> Str(<<"P", "1">>)) @@ (dataset_id :> Str(<<"d", "0">>)),
              NativeCode :> Str(<<"P", "1">>)}
NodeOptions == [merge : MergeFlags, datasetId : DatasetIds]
NodeRequests ==
    [fn : {"generateNodeQuery"}, entityType : NodeEntityTypes, data : NodeData,
     opts : NodeOptions]

RelationshipTypes == {OWNS, <<>>, <<"O", " ", "W">>}
SourceFields == ObjectsOver({person_id}, {UndefinedValue, NullValue, Str(<<"P", "1">>)})
TargetFields == ObjectsOver({bank_id}, {Str(<<"B", "1">>), Str(<<"B", "'">>)})
SourceNodes == [entityType : {Person, Account, constructor, <<"P", ";">>}, fields : SourceFields]
TargetNodes == [entityType : {Bank, <<"1", "B">>}, fields : TargetFields]
RelationshipProperties ==
    ObjectsOver({since}, {UndefinedValue, Str(<<"2", "0">>), Str(<<"2", "1">>)})
RelationshipOptions ==
    [merge : {UndefinedValue, Bool(TRUE)}, datasetId : DatasetIds,
     properties : RelationshipProperties]
RelationshipRequests ==
    [fn : {"generateRelationshipQuery"}, relationshipType : RelationshipTypes,
     sourceNode : SourceNodes, targetNode : TargetNodes, opts : RelationshipOptions]

\* Inferred relationships, ids and options for generateRelationshipCypher.
PropertyEntries ==
    {<<>>,
     <<[key |-> since, value |-> Str(<<"2", "0">>)]>>,
     <<[key |-> since, value |-> Str(<<"o", "'">>)]>>,
     <<[key |-> since, value |-> Number(<<"7">>)]>>,
     <<[key |-> since, value |-> NullValue]>>,
     <<[key |-> <<"1", "k">>, value |-> Str(<<"2", "0">>)]>>}
InferredRelationships ==
    [type : {OWNS}, sourceEntity : {Person, <<"P", ";">>},
     targetEntity : {Account, <<"A", ";">>},
     confidence : {Number(<<"0", ".", "9", "5">>)}, properties : PropertyEntries]
SourceIds == {<<"p", "1">>, <<"p", "2">>, <<"p", "'">>, <<"p", "\\", "'">>}
TargetIds == {<<"a", "1">>, <<"a", "'">>}
CypherOptions ==
    [useMerge : {UndefinedValue, Bool(TRUE)},
     useParameters : {UndefinedValue, Bool(TRUE), Bool(FALSE)}]
CypherRequests ==
    [fn : {"generateRelationshipCypher"}, relationship : InferredRelationships,
     sourceId : SourceIds, targetId : TargetIds, opts : CypherOptions]

InitQueries ==
    /\ pc = [c \in Calls |-> "unused"]
    /\ items = [c \in Calls |-> <<>>]
    /\ options = [c \in Calls |-> [batchSize |-> Undefined, maxRetries |-> Undefined,
                                   onProgress |-> FALSE]]
    /\ batchSize = [c \in Calls |-> 0]
    /\ maxRetries = [c \in Calls |-> 0]
    /\ batches = [c \in Calls |-> <<>>]
    /\ processedItems = [c \in Calls |-> 0]
    /\ batchIndex = [c \in Calls |-> 0]
    /\ retryCount = [c \in Calls |-> 0]
    /\ lastError = [c \in Calls |-> NoError]
    /\ delay = [c \in Calls |-> 0]
    /\ result = [c \in Calls |-> NoResult]
    /\ thrown = [c \in Calls |-> NoError]
    /\ tx = [c \in Calls |-> NoTx]
    /\ attempts = [c \in Calls |-> NoAttempts]
    /\ ledger = [c \in Calls |-> NoLedger]
    /\ progress = [c \in Calls |-> NoProgress]
    /\ raised = [c \in Calls |-> NoError]
    /\ request \in NodeRequests \cup RelationshipRequests \cup CypherRequests
    /\ outcome = NoOutcome
    /\ store = NoStore

\* generateNodeQuery(entityType, data, options) is called.
GenerateNodeQuery ==
    /\ request.fn = "generateNodeQuery"
    /\ outcome.kind = "none"
    /\ outcome' = generateNodeQuery(request.entityType, request.data, request.opts)
    /\ UNCHANGED <<batchVars, request, store>>

\* generateRelationshipQuery(relationshipType, sourceNode, targetNode, options)
\* is called.
GenerateRelationshipQuery ==
    /\ request.fn = "generateRelationshipQuery"
    /\ outcome.kind = "none"
    /\ outcome' = generateRelationshipQuery(request.relationshipType, request.sourceNode,
                                            request.targetNode, request.opts)
    /\ UNCHANGED <<batchVars, request, store>>

\* generateRelationshipCypher(relationship, sourceId, targetId, options) is
\* called.
GenerateRelationshipCypher ==
    /\ request.fn = "generateRelationshipCypher"
    /\ outcome.kind = "none"
    /\ outcome' = generateRelationshipCypher(request.relationship, request.sourceId,
                                             request.targetId, request.opts)
    /\ UNCHANGED <<batchVars, request, store>>

\* The caller runs the node query it was returned, with its parameters.
ExecuteNodeQuery ==
    /\ request.fn = "generateNodeQuery"
    /\ outcome.kind = "returned"
    /\ store.executed < MaxExecutions
    /\ store' = [nodes |-> RunNodeQuery(store.nodes, outcome.query, outcome.params),
                 before |-> store.nodes,
                 lastParams |-> store.params,
                 params |-> outcome.params,
                 executed |-> store.executed + 1]
    /\ outcome' = [outcome EXCEPT !.kind = "executed"]
    /\ UNCHANGED <<batchVars, request>>

\* Data of a later import: the first identifier or another one, the name
\* absent, null or set.
ReimportData ==
    ObjectsOver({person_id}, {Str(<<"P", "1">>), Str(<<"O", "'", "B">>)})
        \cup {d \in ObjectsOver({person_id, name}, DataValues) :
                 person_id \in DOMAIN d /\ d[person_id] = Str(<<"P", "1">>)}

\* The same entity type is imported again.
Reimport ==
    /\ outcome.kind = "executed"
    /\ store.executed < MaxExecutions
    /\ \E data \in ReimportData : request' = [request EXCEPT !.data = data]
    /\ outcome' = NoOutcome
    /\ UNCHANGED <<batchVars, store>>

NextQueries ==
    \/ GenerateNodeQuery
    \/ GenerateRelationshipQuery
    \/ GenerateRelationshipCypher
    \/ ExecuteNodeQuery
    \/ Reimport

QuerySpec == InitQueries /\ [][NextQueries]_vars

\* ------------------------------------------------------------------------
\* Properties of the query generators
\* ------------------------------------------------------------------------
\* An identifier: non-empty, a letter or underscore first, then letters,
\* digits and underscores.
IdentifierStart == Upper \cup Lower \cup {"_"}
IdentifierPart == IdentifierStart \cup Digit
IsIdentifier(s) ==
    /\ s # <<>>
    /\ Head(s) \in IdentifierStart
    /\ {s[i] : i \in DOMAIN s} \subseteq IdentifierPart

RECURSIVE IndexOfAny(_, _, _)
IndexOfAny(text, pieces, i) ==
    IF i > Len(text) THEN 0
    ELSE IF text[i] \in pieces THEN i
    ELSE IndexOfAny(text, pieces, i + 1)

\* What a text holds between the first of the opening pieces and the next
\* closing piece.
Between(text, opening, closing) ==
    LET a == IndexOfAny(text, opening, 1)
    IN SubSeq(text, a + 1, IndexOfAny(text, closing, a + 1) - 1)

\* The call came to an end, and a query was returned (and perhaps run).
Settled == outcome.kind # "none"
QueryReturned == outcome.kind \in {"returned", "executed"}

\* The labels and the relationship type in the text of a returned query.
NodeLabelInQuery == Between(outcome.query, {"CREATE (n:", "MERGE (n:"},
                            {" {", ") SET n = $props RETURN n"})
FromLabelInQuery == Between(outcome.query, {"MATCH (from:"}, {" {"})
ToLabelInQuery == Between(outcome.query, {"MATCH (to:"}, {" {"})
TypeInQuery == Between(outcome.query, {"CREATE (from)-[r:", "MERGE (from)-[r:"}, {"]->(to)"})

\* The call threw the invalid-identifier error, naming one of the kinds.
ThrewInvalidIdentifier(kinds) ==
    /\ outcome.kind = "threw"
    /\ outcome.query = <<>>
    /\ outcome.message[1] = "Invalid Neo4j "
    /\ outcome.message[2] \in kinds

\* C12: generateNodeQuery and generateRelationshipQuery return a query only
\* when the entity type, resp. the relationship type and both node entity
\* types, are identifiers; otherwise they throw the invalid-identifier error
\* naming the kind (label or relationship type) and produce no query text;
\* every label and relationship type in a returned query is an identifier.
C12_IdentifiersValidated ==
    /\ (request.fn = "generateNodeQuery" /\ Settled) =>
          IF IsIdentifier(request.entityType)
          THEN QueryReturned =>
                  /\ NodeLabelInQuery = request.entityType
                  /\ IsIdentifier(NodeLabelInQuery)
          ELSE ThrewInvalidIdentifier({"label"})
    /\ (request.fn = "generateRelationshipQuery" /\ Settled) =>
          IF /\ IsIdentifier(request.relationshipType)
             /\ IsIdentifier(request.sourceNode.entityType)
             /\ IsIdentifier(request.targetNode.entityType)
          THEN QueryReturned =>
                  /\ IsIdentifier(FromLabelInQuery)
                  /\ IsIdentifier(ToLabelInQuery)
                  /\ IsIdentifier(TypeInQuery)
                  /\ FromLabelInQuery = request.sourceNode.entityType
                  /\ ToLabelInQuery = request.targetNode.entityType
                  /\ TypeInQuery = request.relationshipType
          ELSE ThrewInvalidIdentifier(
                   (IF IsIdentifier(request.relationshipType) THEN {}
                    ELSE {"relationship type"})
                   \cup (IF /\ IsIdentifier(request.sourceNode.entityType)
                            /\ IsIdentifier(request.targetNode.entityType)
                         THEN {} ELSE {"label"}))

\* A relationship query with a valid type and source label was refused for
\* its target label.
C12_Witness ==
    /\ request.fn = "generateRelationshipQuery"
    /\ IsIdentifier(request.relationshipType)
    /\ IsIdentifier(request.sourceNode.entityType)
    /\ request.targetNode.entityType = <<"1", "B">>
    /\ outcome.kind = "threw"
    /\ outcome.message[2] = "label"

\* The keys an object holds a value for.
PresentKeys(obj) == DOMAIN filterUndefinedValues(obj)

\* The keys of the properties a relationship query sends, if it sends any.
SentKeys(properties, datasetId) ==
    LET props == prepareRelationshipProperties(properties, datasetId)
    IN <<props.type, DOMAIN props.entries>>

ParameterizedPath == request.opts.useParameters \in {UndefinedValue, Bool(TRUE)}

\* The call takes the literal path: useParameters false.
LiteralPath == request.opts.useParameters = Bool(FALSE)

\* C14: without options or with useParameters true, generateRelationshipCypher
\* emits the placeholders $sourceId and $targetId and never interpolates the
\* values of sourceId and targetId: the text returned is the same for every
\* pair of id values.
C14_IdsParameterized ==
    (request.fn = "generateRelationshipCypher" /\ QueryReturned /\ ParameterizedPath) =>
        /\ \E i \in DOMAIN outcome.query : outcome.query[i] = "$sourceId"
        /\ \E i \in DOMAIN outcome.query : outcome.query[i] = "$targetId"
        /\ \A sourceId \in SourceIds, targetId \in TargetIds :
              generateRelationshipCypher(request.relationship, sourceId, targetId,
                                         request.opts).query = outcome.query

\* The string literals of a Cypher text, read as Cypher reads them: a quote
\* opens a literal, a backslash inside it takes the next character as it
\* is, and the next quote closes it.
RECURSIVE Lex(_, _, _, _, _)
Lex(text, i, inside, current, done) ==
    IF i > Len(text) THEN (IF inside THEN Append(done, current) ELSE done)
    ELSE IF ~inside
    THEN Lex(text, i + 1, text[i] = "'", <<>>, done)
    ELSE IF text[i] = "\\" /\ i < Len(text)
    THEN Lex(text, i + 2, TRUE, Append(current, text[i + 1]), done)
    ELSE IF text[i] = "'"
    THEN Lex(text, i + 1, FALSE, <<>>, Append(done, current))
    ELSE Lex(text, i + 1, TRUE, Append(current, text[i]), done)

StringLiterals(text) == Lex(text, 1, FALSE, <<>>, <<>>)

\* Each backslash doubled, then each single quote prefixed with a backslash.
RECURSIVE Escaped(_)
Escaped(chars) ==
    IF chars = <<>> THEN <<>>
    ELSE (IF Head(chars) = "\\" THEN <<"\\", "\\">>
          ELSE IF Head(chars) = "'" THEN <<"\\", "'">>
          ELSE <<Head(chars)>>) \o Escaped(Tail(chars))

\* piece occurs in text
Occurs(piece, text) ==
    \E i \in 1..(Len(text) - Len(piece) + 1) : SubSeq(text, i, i + Len(piece) - 1) = piece

\* The string values among the properties of a relationship, in order.
StringProperties(properties) ==
    SelectSeq(properties, LAMBDA entry : entry.value.type = "string")

\* C15: on the literal path every interpolated sourceId, targetId and string
\* property value is escaped (each backslash doubled, then each single quote
\* prefixed with a backslash), so that no interpolated value closes the
\* single-quoted literal around it: the literals of the text are the values.
C15_LiteralsEscaped ==
    (request.fn = "generateRelationshipCypher" /\ QueryReturned /\ LiteralPath) =>
        /\ Occurs(<<" {id: ", "'">> \o Escaped(request.sourceId) \o <<"'", "}), (t:">>,
                  outcome.query)
        /\ Occurs(<<" {id: ", "'">> \o Escaped(request.targetId) \o <<"'", "})">>,
                  outcome.query)
        /\ \A i \in DOMAIN StringProperties(request.relationship.properties) :
              Occurs(<<": ", "'">>
                         \o Escaped(StringProperties(request.relationship.properties)[i].value.text)
                         \o <<"'">>,
                     outcome.query)
        /\ StringLiterals(outcome.query)
               = <<request.sourceId, request.targetId>>
                     \o [i \in DOMAIN StringProperties(request.relationship.properties) |->
                            StringProperties(request.relationship.properties)[i].value.text]

\* C16: generateRelationshipCypher throws the invalid-property-key error when
\* a key of relationship.properties is not an identifier and the
\* invalid-label error when sourceEntity or targetEntity is not one; then
\* no query string is returned, on the parameterized and the literal path.
C16_KeysAndLabelsValidated ==
    (request.fn = "generateRelationshipCypher" /\ Settled) =>
        /\ ~(/\ IsIdentifier(request.relationship.sourceEntity)
             /\ IsIdentifier(request.relationship.targetEntity)
             /\ \A i \in DOMAIN request.relationship.properties :
                   IsIdentifier(request.relationship.properties[i].key))
               => outcome.kind = "threw" /\ outcome.query = <<>>
        /\ (outcome.kind = "threw" /\ outcome.message[1] = "Invalid property key: \"")
               => \E i \in DOMAIN request.relationship.properties :
                     ~IsIdentifier(request.relationship.properties[i].key)
        /\ (outcome.kind = "threw" /\ outcome.message[1] = "Invalid Neo4j ")
               => \/ ~IsIdentifier(request.relationship.sourceEntity)
                  \/ ~IsIdentifier(request.relationship.targetEntity)

\* ------------------------------------- properties of the node generators
\* The entity type is in the unique-identifier table.
Registered(entityType) == entityType \in DOMAIN UNIQUE_IDENTIFIERS

\* The call threw the error whose message opens with opening and then names
\* named.
ThrewNaming(opening, named) ==
    /\ outcome.kind = "threw"
    /\ outcome.query = <<>>
    /\ outcome.message[1] = opening
    /\ SubSeq(outcome.message, 2, Len(named) + 1) = named

\* The call threw the error whose message ends with named.
ThrewFor(opening, named) ==
    /\ outcome.kind = "threw"
    /\ outcome.query = <<>>
    /\ outcome.message[1] = opening
    /\ SubSeq(outcome.message, Len(outcome.message) - Len(named) + 1,
              Len(outcome.message)) = named

\* C17: no query unless every unique identifier resolves.  generateNodeQuery
\* with merge true throws unknown-entity-type for an entity type outside the
\* unique-identifier table and missing-unique-identifier, naming the field,
\* when the field is not among the prepared properties (left out, or
\* undefined); generateRelationshipQuery throws unknown-entity-type for an
\* unregistered source or target type and missing-identifier, naming the
\* entity, when a node lacks its identifier value; generateNodeQuery with
\* merge false makes neither check.
C17_IdentifiersResolved ==
    /\ (/\ request.fn = "generateNodeQuery"
        /\ Settled
        /\ IsIdentifier(request.entityType)) =>
          IF ~Truthy(Default(request.opts.merge, Bool(FALSE))) THEN QueryReturned
          ELSE IF ~Registered(request.entityType)
          THEN ThrewNaming("Unknown entity type: \"", request.entityType)
          ELSE IF UNIQUE_IDENTIFIERS[request.entityType] \notin PresentKeys(request.data)
          THEN ThrewNaming("Missing required unique identifier \"",
                           UNIQUE_IDENTIFIERS[request.entityType])
          ELSE QueryReturned
    /\ (/\ request.fn = "generateRelationshipQuery"
        /\ Settled
        /\ IsIdentifier(request.relationshipType)
        /\ IsIdentifier(request.sourceNode.entityType)
        /\ IsIdentifier(request.targetNode.entityType)) =>
          IF ~Registered(request.sourceNode.entityType)
          THEN ThrewNaming("Unknown entity type: \"", request.sourceNode.entityType)
          ELSE IF ~Registered(request.targetNode.entityType)
          THEN ThrewNaming("Unknown entity type: \"", request.targetNode.entityType)
          ELSE IF UNIQUE_IDENTIFIERS[request.sourceNode.entityType]
                      \notin PresentKeys(request.sourceNode.fields)
          THEN ThrewFor("Missing required identifier \"", request.sourceNode.entityType)
          ELSE IF UNIQUE_IDENTIFIERS[request.targetNode.entityType]
                      \notin PresentKeys(request.targetNode.fields)
          THEN ThrewFor("Missing required identifier \"", request.targetNode.entityType)
          ELSE QueryReturned

\* The merge flag of the node query call.
MergeRequested == Truthy(Default(request.opts.merge, Bool(FALSE)))

\* The node query returned was run against the store.
NodeQueryExecuted == request.fn = "generateNodeQuery" /\ outcome.kind = "executed"

\* The nodes of the store with the label and the value of the identifier
\* field k of the query last run.
NodesIdentified(k) ==
    {n \in store.nodes : /\ n.label = request.entityType
                         /\ Get(n.props, k) = outcome.params[k]}

\* C18: MERGE is idempotent.  After the query and params of
\* generateNodeQuery(entityType, data, {merge: true}) were run against the
\* store, also after an earlier run for the same identifier value, the store
\* holds exactly one node with that label and identifier, and when the run
\* before was made with equal data the store is as that run left it.
C18_MergeIdempotent ==
    (NodeQueryExecuted /\ MergeRequested) =>
        /\ DOMAIN outcome.params \ {propsKey} # {}
        /\ \A k \in DOMAIN outcome.params \ {propsKey} : Cardinality(NodesIdentified(k)) = 1
        /\ (store.executed >= 2 /\ store.lastParams = store.params)
               => store.nodes = store.before

\* The same MERGE query was run a second time with equal data, and the
\* store holds the one node the first run created.
C18_Witness ==
    /\ NodeQueryExecuted
    /\ MergeRequested
    /\ store.executed = 2
    /\ store.lastParams = store.params
    /\ Cardinality(store.nodes) = 1
    /\ name \in DOMAIN request.data

\* C19: importing again with merge true erases nothing.  The text sets the
\* properties with SET n += $props for merge true and with SET n = $props
\* for merge false only, so after a merge query has run, every property of
\* an existing node whose key is not among the prepared properties of the
\* new call has the value it had.
C19_MergeKeepsProperties ==
    /\ (request.fn = "generateNodeQuery" /\ QueryReturned) =>
          outcome.query[Len(outcome.query)]
              = IF MergeRequested THEN "}) SET n += $props RETURN n"
                ELSE ") SET n = $props RETURN n"
    /\ (NodeQueryExecuted /\ MergeRequested) =>
          \A n \in store.before :
              \E m \in store.nodes :
                  /\ m.id = n.id
                  /\ m.label = n.label
                  /\ \A k \in DOMAIN n.props \ DOMAIN outcome.params[propsKey] :
                        k \in DOMAIN m.props /\ m.props[k] = n.props[k]

\* A node imported with a name was imported again by a merge query whose
\* data holds no name, and still has it.
C19_Witness ==
    /\ NodeQueryExecuted
    /\ MergeRequested
    /\ store.executed = 2
    /\ name \notin DOMAIN outcome.params[propsKey]
    /\ \E n \in store.nodes : name \in DOMAIN n.props
    /\ Cardinality(store.nodes) = 1

\* C20: the props generateNodeQuery sends are exactly the entries of data
\* whose value is not undefined, null kept and no value converted, plus,
\* when datasetId is given, an entry dataset_id equal to it.
C20_PropsSent ==
    (request.fn = "generateNodeQuery" /\ QueryReturned) =>
        outcome.params[propsKey]
            = IF request.opts.datasetId.type # "undefined"
              THEN WithEntry([k \in PresentKeys(request.data) |-> request.data[k]],
                             dataset_id, request.opts.datasetId)
              ELSE [k \in PresentKeys(request.data) |-> request.data[k]]

\* ========================================================================
\* Part 3: the foreign key detector (lib/fk-detector.ts) and the relationship
\* inference engine (lib/csv-parser.ts, inferRelationships).  A confidence
\* is held in thousandths (0.95 is 950), so that the detector's scores and
\* their products with the generic multiplier are integers.
\* ========================================================================
ConfidenceUnit == 1000

\* const CONFIDENCE
CONFIDENCE ==
    [VERY_HIGH |-> 950, HIGH |-> 900, MEDIUM_HIGH |-> 800, MEDIUM |-> 750, LOW |-> 500]

\* ---------------------------------------------------- String.prototype
LowerCaseLetters == <<"a", "b", "c", "d", "e", "f", "g", "h", "i", "j", "k", "l", "m", "n",
                      "o", "p", "q", "r", "s", "t", "u", "v", "w", "x", "y", "z">>
UpperCaseLetters == <<"A", "B", "C", "D", "E", "F", "G", "H", "I", "J", "K", "L", "M", "N",
                      "O", "P", "Q", "R", "S", "T", "U", "V", "W", "X", "Y", "Z">>
LetterIndex(letters, ch) == CHOOSE i \in 1..Len(letters) : letters[i] = ch

\* ch.toUpperCase() and ch.toLowerCase() of one character
toUpperCase(ch) ==
    IF ch \in Lower THEN UpperCaseLetters[LetterIndex(LowerCaseLetters, ch)] ELSE ch
toLowerCase(ch) ==
    IF ch \in Upper THEN LowerCaseLetters[LetterIndex(UpperCaseLetters, ch)] ELSE ch

\* The characters String.prototype.trim removes (those of the model).
WhiteSpace == {" ", "\t"}

\* header.trim()
trim(s) ==
    LET black == {i \in 1..Len(s) : s[i] \notin WhiteSpace}
    IN IF black = {} THEN <<>>
       ELSE SubSeq(s, CHOOSE i \in black : \A j \in black : i <= j,
                      CHOOSE i \in black : \A j \in black : i >= j)

\* part.charAt(0).toUpperCase() + part.slice(1).toLowerCase() for every part
\* of snakeCaseId.split('_'), joined with ''
RECURSIVE PascalCaseFrom(_, _)
PascalCaseFrom(s, i) ==
    IF i > Len(s) THEN <<>>
    ELSE (IF s[i] = "_" THEN <<>>
          ELSE IF i = 1 \/ s[i - 1] = "_" THEN <<toUpperCase(s[i])>>
          ELSE <<toLowerCase(s[i])>>) \o PascalCaseFrom(s, i + 1)

snakeCaseToPascalCase(snakeCaseId) == PascalCaseFrom(snakeCaseId, 1)

\* str.charAt(0).toUpperCase() + str.slice(1)
capitalizeFirst(str) ==
    IF Len(str) = 0 THEN str ELSE <<toUpperCase(str[1])>> \o Tail(str)

\* ------------------------------------------------------------ RegExp
\* The regular expressions of the rule tables, by shape:
\*   exact       /^text$/          suffix      /.*text$/
\*   wordSuffix  /^(\w+)text$/     contains    /.*_?text(?:_|erence)?.*$/
\* with the flags i (ignoreCase) and g (global).
RegExp(kind, text, ignoreCase, global) ==
    [kind |-> kind, text |-> text, ignoreCase |-> ignoreCase, global |-> global]

\* Two characters match under the pattern's i flag.
SameCharacter(a, b, ignoreCase) ==
    IF ignoreCase THEN toLowerCase(a) = toLowerCase(b) ELSE a = b

\* text occurs in s at the 0-based index at.
OccursAt(s, text, at, ignoreCase) ==
    /\ at >= 0
    /\ at + Len(text) <= Len(s)
    /\ \A i \in 1..Len(text) : SameCharacter(s[at + i], text[i], ignoreCase)

WordCharacters == Upper \cup Lower \cup Digit \cup {"_"}

\* The pattern has a match in s that begins at index from or later.  Every
\* pattern of the tables ends in $, so a match ends where s ends.
MatchesFrom(pattern, s, from) ==
    CASE pattern.kind = "exact" ->
            from = 0 /\ Len(s) = Len(pattern.text)
                /\ OccursAt(s, pattern.text, 0, pattern.ignoreCase)
      [] pattern.kind = "suffix" ->
            /\ Len(s) - Len(pattern.text) >= from
            /\ OccursAt(s, pattern.text, Len(s) - Len(pattern.text), pattern.ignoreCase)
      [] pattern.kind = "wordSuffix" ->
            /\ from = 0
            /\ Len(s) > Len(pattern.text)
            /\ OccursAt(s, pattern.text, Len(s) - Len(pattern.text), pattern.ignoreCase)
            /\ \A i \in 1..(Len(s) - Len(pattern.text)) : s[i] \in WordCharacters
      [] pattern.kind = "contains" ->
            \E at \in from..Len(s) : OccursAt(s, pattern.text, at, pattern.ignoreCase)

\* pattern.test(s) of a pattern whose lastIndex is lastIndex: the result and
\* the lastIndex it leaves.  Without the g flag the search begins at 0 and
\* lastIndex is not touched; with it the search begins at lastIndex, a match
\* sets lastIndex to its end and a failure resets it to 0.
RegExpTest(pattern, s, lastIndex) ==
    LET from == IF pattern.global THEN lastIndex ELSE 0
        found == from <= Len(s) /\ MatchesFrom(pattern, s, from)
    IN [matched |-> found,
        lastIndex |-> IF ~pattern.global THEN lastIndex
                      ELSE IF found THEN Len(s) ELSE 0]

\* columnName.match(pattern)[1] of the two generic patterns: what (\w+) took
FirstGroup(pattern, s) == SubSeq(s, 1, Len(s) - Len(pattern.text))

\* ------------------------------------------------------- fk-detector.ts
DEFAULT_PATTERNS ==
    <<[pattern |-> RegExp("exact", <<"b", "a", "n", "k", "_", "i", "d">>, TRUE, FALSE), confidence |-> CONFIDENCE.VERY_HIGH,
      targetEntity |-> Str(Bank), patternType |-> "domain_specific", extractEntity |-> "none"],
      [pattern |-> RegExp("exact", <<"p", "e", "r", "s", "o", "n", "_", "i", "d">>, TRUE, FALSE), confidence |-> CONFIDENCE.VERY_HIGH,
      targetEntity |-> Str(Person), patternType |-> "domain_specific", extractEntity |-> "none"],
      [pattern |-> RegExp("exact", <<"c", "o", "m", "p", "a", "n", "y", "_", "i", "d">>, TRUE, FALSE), confidence |-> CONFIDENCE.VERY_HIGH,
      targetEntity |-> Str(Company), patternType |-> "domain_specific", extractEntity |-> "none"],
      [pattern |-> RegExp("exact", <<"a", "c", "c", "o", "u", "n", "t", "_", "i", "d">>, TRUE, FALSE), confidence |-> CONFIDENCE.VERY_HIGH,
      targetEntity |-> Str(BankAccount), patternType |-> "domain_specific", extractEntity |-> "none"],
      [pattern |-> RegExp("exact", <<"t", "r", "a", "n", "s", "a", "c", "t", "i", "o", "n", "_", "i", "d">>, TRUE, FALSE), confidence |-> CONFIDENCE.VERY_HIGH,
      targetEntity |-> Str(Transaction), patternType |-> "domain_specific", extractEntity |-> "none"],
      [pattern |-> RegExp("exact", <<"p", "a", "r", "e", "n", "t", "_", "i", "d">>, TRUE, FALSE), confidence |-> CONFIDENCE.HIGH,
      targetEntity |-> Str(Person), patternType |-> "domain_specific", extractEntity |-> "none"],
      [pattern |-> RegExp("exact", <<"f", "r", "o", "m", "_", "i", "b", "a", "n">>, TRUE, FALSE), confidence |-> CONFIDENCE.HIGH,
      targetEntity |-> Str(BankAccount), patternType |-> "iban", extractEntity |-> "none"],
      [pattern |-> RegExp("exact", <<"t", "o", "_", "i", "b", "a", "n">>, TRUE, FALSE), confidence |-> CONFIDENCE.HIGH,
      targetEntity |-> Str(BankAccount), patternType |-> "iban", extractEntity |-> "none"],
      [pattern |-> RegExp("suffix", <<"_", "i", "b", "a", "n">>, TRUE, FALSE), confidence |-> CONFIDENCE.HIGH,
      targetEntity |-> Str(BankAccount), patternType |-> "iban", extractEntity |-> "none"],
      [pattern |-> RegExp("exact", <<"f", "r", "o", "m", "I", "b", "a", "n">>, FALSE, FALSE), confidence |-> CONFIDENCE.MEDIUM_HIGH,
      targetEntity |-> Str(BankAccount), patternType |-> "iban", extractEntity |-> "none"],
      [pattern |-> RegExp("exact", <<"t", "o", "I", "b", "a", "n">>, FALSE, FALSE), confidence |-> CONFIDENCE.MEDIUM_HIGH,
      targetEntity |-> Str(BankAccount), patternType |-> "iban", extractEntity |-> "none"],
      [pattern |-> RegExp("suffix", <<"I", "b", "a", "n">>, FALSE, FALSE), confidence |-> CONFIDENCE.MEDIUM_HIGH,
      targetEntity |-> Str(BankAccount), patternType |-> "iban", extractEntity |-> "none"],
      [pattern |-> RegExp("wordSuffix", <<"_", "i", "d">>, TRUE, FALSE), confidence |-> CONFIDENCE.HIGH,
      targetEntity |-> UndefinedValue, patternType |-> "suffix_id", extractEntity |-> "snake"],
      [pattern |-> RegExp("wordSuffix", <<"I", "d">>, FALSE, FALSE), confidence |-> CONFIDENCE.MEDIUM,
      targetEntity |-> UndefinedValue, patternType |-> "suffix_id_camel", extractEntity |-> "camel"],
      [pattern |-> RegExp("contains", <<"r", "e", "f">>, TRUE, FALSE), confidence |-> CONFIDENCE.LOW,
      targetEntity |-> UndefinedValue, patternType |-> "reference", extractEntity |-> "none"]>>

\* customPatterns.map(cp => ({ ...cp, patternType: 'custom' })): a custom
\* pattern of the model has a targetEntity and no extractEntity.
CustomRule(cp) ==
    [pattern |-> cp.pattern, confidence |-> cp.confidence,
     targetEntity |-> cp.targetEntity, patternType |-> "custom",
     extractEntity |-> "none"]

\* The flags of a rule's pattern adjusted to caseInsensitive: the i flag is
\* added or removed, every other flag kept.
AdjustFlags(rule, caseInsensitive) ==
    [rule EXCEPT !.pattern.ignoreCase = caseInsensitive]

\* const allPatterns = [...DEFAULT_PATTERNS, ...customPatterns.map(...)].map(...)
allPatterns(customPatterns, caseInsensitive) ==
    LET combined == DEFAULT_PATTERNS
                        \o [i \in 1..Len(customPatterns) |-> CustomRule(customPatterns[i])]
    IN [i \in 1..Len(combined) |-> AdjustFlags(combined[i], caseInsensitive)]

\* list.sort((a, b) => b.confidence - a.confidence): a stable sort, entries
\* of equal confidence keep their order.
RECURSIVE SortFrom(_, _, _)
SortFrom(list, i, sorted) ==
    IF i > Len(list) THEN sorted
    ELSE LET ahead == Cardinality({j \in 1..Len(sorted) :
                                      sorted[j].confidence >= list[i].confidence})
         IN SortFrom(list, i + 1,
                     SubSeq(sorted, 1, ahead) \o <<list[i]>>
                         \o SubSeq(sorted, ahead + 1, Len(sorted)))

sortKeepsOrder(list) == list

sortByConfidenceDescending(list) == SortFrom(list, 1, <<>>)

\* The target entity a matching rule gives for trimmedHeader.
TargetOf(rule, trimmedHeader) ==
    CASE rule.extractEntity = "snake" ->
            Str(snakeCaseToPascalCase(FirstGroup(rule.pattern, trimmedHeader)))
      [] rule.extractEntity = "camel" ->
            Str(capitalizeFirst(FirstGroup(rule.pattern, trimmedHeader)))
      [] OTHER -> rule.targetEntity

\* The matches collected for one header, in rule order.
RECURSIVE MatchesFromRule(_, _, _, _)
MatchesFromRule(rules, tests, trimmedHeader, r) ==
    IF r > Len(rules) THEN <<>>
    ELSE (IF tests[r].matched
          THEN <<[confidence |-> rules[r].confidence,
                  targetEntity |-> TargetOf(rules[r], trimmedHeader),
                  patternType |-> rules[r].patternType]>>
          ELSE <<>>) \o MatchesFromRule(rules, tests, trimmedHeader, r + 1)

\* detectedKeys.push({ columnName: header, ...bestMatch })
DetectedKey(header, bestMatch) ==
    [columnName |-> header, confidence |-> bestMatch.confidence,
     targetEntity |-> bestMatch.targetEntity, patternType |-> bestMatch.patternType]

\* for (const header of validHeaders) { ... }: every rule's pattern is
\* tested against the trimmed header, each pattern object keeping its
\* lastIndex from one header to the next.
RECURSIVE HeaderLoop(_, _, _, _, _)
HeaderLoop(rules, validHeaders, h, lastIndexes, detectedKeys) ==
    IF h > Len(validHeaders) THEN detectedKeys
    ELSE LET header == validHeaders[h]
             trimmedHeader == trim(header)
             tests == [r \in 1..Len(rules) |->
                          RegExpTest(rules[r].pattern, trimmedHeader, lastIndexes[r])]
             matches == MatchesFromRule(rules, tests, trimmedHeader, 1)
             bestMatch == sortByConfidenceDescending(matches)[1]
         IN HeaderLoop(rules, validHeaders, h + 1,
                       [r \in 1..Len(rules) |-> tests[r].lastIndex],
                       IF Len(matches) > 0
                       THEN Append(detectedKeys, DetectedKey(header, bestMatch))
                       ELSE detectedKeys)

\* headers.filter((header) => header && header.trim().length > 0)
IsValidHeader(header) == Len(header) > 0 /\ Len(trim(header)) > 0

\* detectedKeys.filter((fk) => fk.confidence >= minConfidence)
KeepsEveryKey(fk, minConfidence) == TRUE

AtOrAbove(fk, minConfidence) == fk.confidence >= minConfidence

\* export function detectForeignKeys(headers, options = {})
detectForeignKeys(headers, opts) ==
    LET caseInsensitive == Truthy(Default(opts.caseInsensitive, Bool(TRUE)))
        minConfidence == IntOf(Coalesce(opts.minConfidence, 0))
        rules == allPatterns(opts.customPatterns, caseInsensitive)
        validHeaders == SelectSeq(headers, IsValidHeader)
        detectedKeys == HeaderLoop(rules, validHeaders, 1,
                                   [r \in 1..Len(rules) |-> 0], <<>>)
        filtered == SelectSeq(detectedKeys, LAMBDA fk : AtOrAbove(fk, minConfidence))
    IN sortByConfidenceDescending(filtered)

\* ------------------------------------------- csv-parser.ts: inference
GENERIC_CONFIDENCE_MULTIPLIER == 800

Manager == <<"M", "a", "n", "a", "g", "e", "r">>
Reference == <<"R", "e", "f", "e", "r", "e", "n", "c", "e">>
Unknown == <<"U", "n", "k", "n", "o", "w", "n">>
from_iban == <<"f", "r", "o", "m", "_", "i", "b", "a", "n">>
to_iban == <<"t", "o", "_", "i", "b", "a", "n">>
parent_id == <<"p", "a", "r", "e", "n", "t", "_", "i", "d">>
manager_id == <<"m", "a", "n", "a", "g", "e", "r", "_", "i", "d">>
account_id == <<"a", "c", "c", "o", "u", "n", "t", "_", "i", "d">>
HELD_AT == <<"H", "E", "L", "D", "_", "A", "T">>
FROM == <<"F", "R", "O", "M">>
TO == <<"T", "O">>
REPORTS_TO == <<"R", "E", "P", "O", "R", "T", "S", "_", "T", "O">>
CONTROLS == <<"C", "O", "N", "T", "R", "O", "L", "S">>

\* const BANKING_RULES
BANKING_RULES ==
    <<[sourceEntity |-> Transaction, targetEntity |-> BankAccount,
      columnPattern |-> RegExp("exact", from_iban, TRUE, FALSE),
      relationshipType |-> FROM, actualSource |-> UndefinedValue, actualTarget |-> UndefinedValue],
      [sourceEntity |-> Transaction, targetEntity |-> Account,
      columnPattern |-> RegExp("exact", from_iban, TRUE, FALSE),
      relationshipType |-> FROM, actualSource |-> UndefinedValue, actualTarget |-> UndefinedValue],
      [sourceEntity |-> Transaction, targetEntity |-> BankAccount,
      columnPattern |-> RegExp("exact", to_iban, TRUE, FALSE),
      relationshipType |-> TO, actualSource |-> UndefinedValue, actualTarget |-> UndefinedValue],
      [sourceEntity |-> Transaction, targetEntity |-> Account,
      columnPattern |-> RegExp("exact", to_iban, TRUE, FALSE),
      relationshipType |-> TO, actualSource |-> UndefinedValue, actualTarget |-> UndefinedValue],
      [sourceEntity |-> Person, targetEntity |-> Person,
      columnPattern |-> RegExp("exact", parent_id, TRUE, FALSE),
      relationshipType |-> REPORTS_TO, actualSource |-> UndefinedValue, actualTarget |-> UndefinedValue],
      [sourceEntity |-> Person, targetEntity |-> Manager,
      columnPattern |-> RegExp("exact", manager_id, TRUE, FALSE),
      relationshipType |-> REPORTS_TO, actualSource |-> UndefinedValue, actualTarget |-> Str(Person)],
      [sourceEntity |-> Account, targetEntity |-> Bank,
      columnPattern |-> RegExp("exact", bank_id, TRUE, FALSE),
      relationshipType |-> HELD_AT, actualSource |-> UndefinedValue, actualTarget |-> UndefinedValue],
      [sourceEntity |-> Account, targetEntity |-> Person,
      columnPattern |-> RegExp("exact", person_id, TRUE, FALSE),
      relationshipType |-> OWNS, actualSource |-> Str(Person), actualTarget |-> Str(Account)],
      [sourceEntity |-> Account, targetEntity |-> Company,
      columnPattern |-> RegExp("exact", company_id, TRUE, FALSE),
      relationshipType |-> OWNS, actualSource |-> Str(Company), actualTarget |-> Str(Account)],
      [sourceEntity |-> Person, targetEntity |-> Company,
      columnPattern |-> RegExp("exact", company_id, TRUE, FALSE),
      relationshipType |-> OWNS, actualSource |-> UndefinedValue, actualTarget |-> UndefinedValue],
      [sourceEntity |-> Person, targetEntity |-> BankAccount,
      columnPattern |-> RegExp("exact", account_id, TRUE, FALSE),
      relationshipType |-> OWNS, actualSource |-> UndefinedValue, actualTarget |-> Str(Account)],
      [sourceEntity |-> Person, targetEntity |-> Account,
      columnPattern |-> RegExp("exact", account_id, TRUE, FALSE),
      relationshipType |-> OWNS, actualSource |-> UndefinedValue, actualTarget |-> UndefinedValue],
      [sourceEntity |-> Company, targetEntity |-> Person,
      columnPattern |-> RegExp("exact", person_id, TRUE, FALSE),
      relationshipType |-> CONTROLS, actualSource |-> Str(Person), actualTarget |-> Str(Company)],
      [sourceEntity |-> Transaction, targetEntity |-> BankAccount,
      columnPattern |-> RegExp("exact", account_id, TRUE, FALSE),
      relationshipType |-> FROM, actualSource |-> UndefinedValue, actualTarget |-> Str(Account)],
      [sourceEntity |-> Transaction, targetEntity |-> Account,
      columnPattern |-> RegExp("exact", account_id, TRUE, FALSE),
      relationshipType |-> FROM, actualSource |-> UndefinedValue, actualTarget |-> UndefinedValue]>>

\* The object literal of normalizeEntity.
normalized == (BankAccount :> Account) @@ (Manager :> Person)

\* normalized[entity] || entity: the own entry, else the property the object
\* literal inherits from Object.prototype, else entity itself.
normalizeEntity(entity) ==
    IF entity \in DOMAIN normalized THEN Str(normalized[entity])
    ELSE IF entity \in DOMAIN ObjectPrototype THEN ObjectPrototype[entity]
    ELSE Str(entity)

\* fk.targetEntity || 'Unknown'
TargetOrUnknown(fk) == IF Truthy(fk.targetEntity) THEN fk.targetEntity.text ELSE Unknown

ruleMatches(rule, sourceEntity, fk) ==
    /\ rule.sourceEntity = sourceEntity
    /\ rule.targetEntity = TargetOrUnknown(fk)
    /\ RegExpTest(rule.columnPattern, fk.columnName, 0).matched

\* ['Reference', 'Unknown'].includes(entity)
shouldSkipGenericInference(entity) ==
    entity.type = "string" /\ entity.text \in {Reference, Unknown}

\* The relationship pushed for a foreign key a rule matched.
RuleRelationship(rule, fk) ==
    [type |-> rule.relationshipType,
     sourceEntity |-> IF Truthy(rule.actualSource) THEN rule.actualSource
                      ELSE Str(rule.sourceEntity),
     targetEntity |-> IF Truthy(rule.actualTarget) THEN rule.actualTarget
                      ELSE normalizeEntity(rule.targetEntity),
     foreignKeyColumn |-> fk.columnName,
     confidence |-> fk.confidence,
     bidirectional |-> Bool(FALSE)]

\* fk.confidence * GENERIC_CONFIDENCE_MULTIPLIER
GenericConfidence(confidence) ==
    (confidence * GENERIC_CONFIDENCE_MULTIPLIER) \div ConfidenceUnit

\* The relationship pushed by the generic fallback.
GenericRelationship(sourceEntity, normalizedTarget, fk) ==
    [type |-> OWNS,
     sourceEntity |-> Str(sourceEntity),
     targetEntity |-> normalizedTarget,
     foreignKeyColumn |-> fk.columnName,
     confidence |-> GenericConfidence(fk.confidence),
     bidirectional |-> UndefinedValue]

\* The rules of the table that match, in table order.
MatchingRules(sourceEntity, fk) ==
    SelectSeq(BANKING_RULES, LAMBDA rule : ruleMatches(rule, sourceEntity, fk))

\* What one pass of the loop over foreignKeys pushes.
RelationshipsOf(fk, sourceEntity) ==
    LET matching == MatchingRules(sourceEntity, fk)
        normalizedTarget == normalizeEntity(TargetOrUnknown(fk))
    IN IF Len(matching) > 0 THEN <<RuleRelationship(matching[1], fk)>>
       ELSE IF TargetOrUnknown(fk) # Unknown /\ ~shouldSkipGenericInference(normalizedTarget)
       THEN <<GenericRelationship(sourceEntity, normalizedTarget, fk)>>
       ELSE <<>>

RECURSIVE ForeignKeyLoop(_, _, _)
ForeignKeyLoop(foreignKeys, sourceEntity, i) ==
    IF i > Len(foreignKeys) THEN <<>>
    ELSE RelationshipsOf(foreignKeys[i], sourceEntity)
             \o ForeignKeyLoop(foreignKeys, sourceEntity, i + 1)

\* export function inferRelationships(foreignKeys, sourceEntity)
inferRelationships(foreignKeys, sourceEntity) ==
    sortByConfidenceDescending(ForeignKeyLoop(foreignKeys, sourceEntity, 1))

\* ------------------------------------- the detector and inference calls
MaxColumns == 2         \* longest list of headers, and of foreign keys

Custom == <<"C", "u", "s", "t", "o", "m">>
Owner == <<"O", "w", "n", "e", "r">>

\* Headers: matched by a domain rule, the same inside white space, blank,
\* matched by no rule, camelCase, matched by the reference rule (two of
\* them), an IBAN column, and upper case.
Headers ==
    {person_id, <<" ", "p", "e", "r", "s", "o", "n", "_", "i", "d", "\t">>,
     <<>>, <<" ">>, name, <<"p", "e", "r", "s", "o", "n", "I", "d">>,
     <<"a", "_", "r", "e", "f">>, <<"b", "_", "r", "e", "f">>,
     from_iban, <<"P", "E", "R", "S", "O", "N", "_", "I", "D">>}

RECURSIVE ListsOver(_, _)
ListsOver(elements, n) ==
    IF n = 0 THEN {<<>>}
    ELSE ListsOver(elements, n - 1)
             \cup {Append(l, e) : l \in {k \in ListsOver(elements, n - 1) : Len(k) = n - 1},
                                  e \in elements}

HeaderLists == ListsOver(Headers, MaxColumns)

\* Custom patterns: none; /.*_ref$/ and /.*_ref$/g above the reference rule;
\* /^person_id$/ level with the domain rule; /.*_id$/ above it, with a
\* confidence of 1.5 (the detector takes any number).
CustomPatternLists ==
    {<<>>,
     <<[pattern |-> RegExp("suffix", <<"_", "r", "e", "f">>, FALSE, FALSE), confidence |-> 800,
        targetEntity |-> Str(Custom)]>>,
     <<[pattern |-> RegExp("suffix", <<"_", "r", "e", "f">>, FALSE, TRUE), confidence |-> 800,
        targetEntity |-> Str(Custom)]>>,
     <<[pattern |-> RegExp("exact", person_id, FALSE, FALSE), confidence |-> 950,
        targetEntity |-> Str(Owner)]>>,
     <<[pattern |-> RegExp("suffix", <<"_", "i", "d">>, FALSE, FALSE), confidence |-> 1500,
        targetEntity |-> Str(Owner)]>>}

DetectorOptions ==
    [customPatterns : CustomPatternLists,
     minConfidence : {Undefined, Num(800), Num(950)},
     caseInsensitive : {UndefinedValue}]
        \cup [customPatterns : {<<>>}, minConfidence : {Undefined},
              caseInsensitive : {Bool(TRUE), Bool(FALSE)}]

DetectRequests ==
    [fn : {"detectForeignKeys"}, headers : HeaderLists, opts : DetectorOptions]

\* Foreign keys handed to inferRelationships directly: rule-matched ones, an
\* alias target, no target, a skipped target, an unregistered target that
\* every object inherits as a property, confidences from 0 to 1.
ForeignKeys ==
    {[columnName |-> from_iban, confidence |-> 900, targetEntity |-> Str(BankAccount),
      patternType |-> "iban"],
     [columnName |-> person_id, confidence |-> 950, targetEntity |-> Str(Person),
      patternType |-> "domain_specific"],
     [columnName |-> company_id, confidence |-> 950, targetEntity |-> Str(Company),
      patternType |-> "domain_specific"],
     [columnName |-> account_id, confidence |-> 760, targetEntity |-> Str(BankAccount),
      patternType |-> "custom"],
     [columnName |-> manager_id, confidence |-> 900, targetEntity |-> Str(Manager),
      patternType |-> "suffix_id"],
     [columnName |-> <<"a", "_", "r", "e", "f">>, confidence |-> 500, targetEntity |-> UndefinedValue,
      patternType |-> "reference"],
     [columnName |-> <<"r", "e", "f", "_", "i", "d">>, confidence |-> 0, targetEntity |-> Str(Reference),
      patternType |-> "custom"],
     [columnName |-> <<"c", "_", "i", "d">>, confidence |-> 1000, targetEntity |-> Str(constructor),
      patternType |-> "custom"]}

ForeignKeyLists == ListsOver(ForeignKeys, MaxColumns)

SourceEntities == {Person, Account, Transaction, Company, BankAccount}

NoOrigin == [fn |-> "none"]

InferRequests ==
    [fn : {"inferRelationships"}, foreignKeys : ForeignKeyLists,
     sourceEntity : SourceEntities, origin : {NoOrigin}]

\* The calls of the detector and of the inference engine, and the calls the
\* pipeline makes with what they return.
InitPipeline ==
    /\ pc = [c \in Calls |-> "unused"]
    /\ items = [c \in Calls |-> <<>>]
    /\ options = [c \in Calls |-> [batchSize |-> Undefined, maxRetries |-> Undefined,
                                   onProgress |-> FALSE]]
    /\ batchSize = [c \in Calls |-> 0]
    /\ maxRetries = [c \in Calls |-> 0]
    /\ batches = [c \in Calls |-> <<>>]
    /\ processedItems = [c \in Calls |-> 0]
    /\ batchIndex = [c \in Calls |-> 0]
    /\ retryCount = [c \in Calls |-> 0]
    /\ lastError = [c \in Calls |-> NoError]
    /\ delay = [c \in Calls |-> 0]
    /\ result = [c \in Calls |-> NoResult]
    /\ thrown = [c \in Calls |-> NoError]
    /\ tx = [c \in Calls |-> NoTx]
    /\ attempts = [c \in Calls |-> NoAttempts]
    /\ ledger = [c \in Calls |-> NoLedger]
    /\ progress = [c \in Calls |-> NoProgress]
    /\ raised = [c \in Calls |-> NoError]
    /\ request \in DetectRequests \cup InferRequests
    /\ outcome = NoOutcome
    /\ store = NoStore

\* detectForeignKeys(headers, options) is called.
DetectForeignKeys ==
    /\ request.fn = "detectForeignKeys"
    /\ outcome.kind = "none"
    /\ outcome' = [kind |-> "detected",
                   keys |-> detectForeignKeys(request.headers, request.opts)]
    /\ UNCHANGED <<batchVars, request, store>>

\* inferRelationships(foreignKeys, sourceEntity) is called.
InferRelationships ==
    /\ request.fn = "inferRelationships"
    /\ outcome.kind = "none"
    /\ outcome' = [kind |-> "inferred",
                   relationships |-> inferRelationships(request.foreignKeys,
                                                        request.sourceEntity)]
    /\ UNCHANGED <<batchVars, request, store>>

\* detector -> inference engine: the foreign keys detected in the headers of
\* a sheet are handed on with the sheet's entity.
PassToInference ==
    /\ outcome.kind = "detected"
    /\ \E sourceEntity \in {Person, Account, Transaction} :
          request' = [fn |-> "inferRelationships", foreignKeys |-> outcome.keys,
                      sourceEntity |-> sourceEntity, origin |-> request]
    /\ outcome' = NoOutcome
    /\ UNCHANGED <<batchVars, store>>

\* The fields of a row in which every identifier is present.
AllIdentifiers ==
    [field \in {person_id, iban, bank_id, company_id, transaction_id} |->
        Str(<<"x", "1">>)]

\* inference engine -> query generator: an inferred relationship between
\* two rows is handed on with its type and its entities.
PassToGenerator ==
    /\ outcome.kind = "inferred"
    /\ \E i \in 1..Len(outcome.relationships), merge \in {UndefinedValue, Bool(TRUE)} :
          LET relationship == outcome.relationships[i]
          IN /\ relationship.sourceEntity.type = "string"
             /\ relationship.targetEntity.type = "string"
             /\ request' = [fn |-> "generateRelationshipQuery",
                            relationshipType |-> relationship.type,
                            sourceNode |-> [entityType |-> relationship.sourceEntity.text,
                                            fields |-> AllIdentifiers],
                            targetNode |-> [entityType |-> relationship.targetEntity.text,
                                            fields |-> AllIdentifiers],
                            opts |-> [merge |-> merge, datasetId |-> UndefinedValue,
                                      properties |-> <<>>],
                            origin |-> [request |-> request, relationship |-> relationship]]
    /\ outcome' = NoOutcome
    /\ UNCHANGED <<batchVars, store>>

NextPipeline ==
    \/ DetectForeignKeys
    \/ InferRelationships
    \/ PassToInference
    \/ PassToGenerator
    \/ GenerateRelationshipQuery

PipelineSpec == InitPipeline /\ [][NextPipeline]_vars

\* ---------------------------------------------------- the detector's claims
DetectorReturned == request.fn = "detectForeignKeys" /\ outcome.kind = "detected"

\* C21: whatever the headers and the custom patterns, every entry
\* detectForeignKeys returns has a confidence between 0 and 1 and, as its
\* columnName, one of the headers it was given.
C21_ConfidenceAndColumn ==
    DetectorReturned =>
        \A i \in 1..Len(outcome.keys) :
            /\ outcome.keys[i].confidence \in 0..ConfidenceUnit
            /\ \E h \in 1..Len(request.headers) :
                  request.headers[h] = outcome.keys[i].columnName

\* A header that is empty or made of white space only.
IsBlank(header) == \A i \in 1..Len(header) : header[i] \in WhiteSpace

\* The confidences of a list do not increase from one entry to the next.
NonIncreasing(list) ==
    \A i \in 1..(Len(list) - 1) : list[i].confidence >= list[i + 1].confidence

\* options.minConfidence, 0 when it is left out
MinConfidenceAsked == IF request.opts.minConfidence.def
                      THEN request.opts.minConfidence.num ELSE 0

\* C22: detectForeignKeys returns no entry for an empty or white-space-only
\* header and no entry whose confidence is below minConfidence, and returns
\* its entries by non-increasing confidence.
C22_FilteredAndSorted ==
    DetectorReturned =>
        /\ \A i \in 1..Len(outcome.keys) :
              /\ ~IsBlank(outcome.keys[i].columnName)
              /\ outcome.keys[i].confidence >= MinConfidenceAsked
        /\ NonIncreasing(outcome.keys)

\* With a threshold of 0.8, two headers were detected and are returned in
\* the other order than given, the second exactly at the threshold.
C22_Witness ==
    /\ DetectorReturned
    /\ MinConfidenceAsked = 800
    /\ Len(request.headers) = 2
    /\ Len(outcome.keys) = 2
    /\ outcome.keys[1].columnName = request.headers[2]
    /\ outcome.keys[1].confidence > outcome.keys[2].confidence
    /\ outcome.keys[2].confidence = MinConfidenceAsked

\* ------------------------------------------- the inference engine's claims
InferenceReturned == request.fn = "inferRelationships" /\ outcome.kind = "inferred"

\* The aliases: BankAccount stands for Account, Manager for Person.
AliasOf(entity) ==
    IF entity = BankAccount THEN Account
    ELSE IF entity = Manager THEN Person
    ELSE entity

\* The triple (sourceEntity, fk.targetEntity, fk.columnName) matches a rule.
TripleMatches(rule, sourceEntity, fk) ==
    /\ rule.sourceEntity = sourceEntity
    /\ fk.targetEntity = Str(rule.targetEntity)
    /\ MatchesFrom(rule.columnPattern, fk.columnName, 0)

\* The first rule in table order that matches, 0 if none does.
FirstMatchingRule(sourceEntity, fk) ==
    LET matching == {r \in 1..Len(BANKING_RULES) :
                        TripleMatches(BANKING_RULES[r], sourceEntity, fk)}
    IN IF matching = {} THEN 0 ELSE CHOOSE r \in matching : \A q \in matching : r <= q

\* fk.targetEntity is known and not in the skip list.
GenericApplies(fk) ==
    /\ fk.targetEntity.type = "string"
    /\ fk.targetEntity.text \notin {<<>>, Reference, Unknown}

\* What is to be emitted for one foreign key: by the first matching rule,
\* with the confidence unchanged; else the generic OWNS relationship, with
\* 0.8 times the confidence; else nothing.
ExpectedFor(fk, sourceEntity) ==
    LET r == FirstMatchingRule(sourceEntity, fk)
    IN IF r > 0
       THEN <<[generic |-> FALSE, type |-> BANKING_RULES[r].relationshipType,
               sourceEntity |-> <<>>, targetEntity |-> <<>>,
               foreignKeyColumn |-> fk.columnName, confidence |-> fk.confidence]>>
       ELSE IF GenericApplies(fk)
       THEN <<[generic |-> TRUE, type |-> OWNS,
               sourceEntity |-> sourceEntity, targetEntity |-> AliasOf(fk.targetEntity.text),
               foreignKeyColumn |-> fk.columnName,
               confidence |-> (8 * fk.confidence) \div 10]>>
       ELSE <<>>

RECURSIVE ExpectedFrom(_, _, _)
ExpectedFrom(foreignKeys, sourceEntity, i) ==
    IF i > Len(foreignKeys) THEN <<>>
    ELSE ExpectedFor(foreignKeys[i], sourceEntity)
             \o ExpectedFrom(foreignKeys, sourceEntity, i + 1)

\* An emitted relationship is the expected one.
Fits(expected, relationship) ==
    /\ relationship.type = expected.type
    /\ relationship.foreignKeyColumn = expected.foreignKeyColumn
    /\ relationship.confidence = expected.confidence
    /\ expected.generic =>
          /\ relationship.sourceEntity = Str(expected.sourceEntity)
          /\ relationship.targetEntity = Str(expected.targetEntity)

\* C23: for each foreign key inferRelationships emits at most one
\* relationship: that of the first rule in table order whose triple matches,
\* with the FK's confidence unchanged; if no rule matches and the target
\* entity is known and not skipped, the generic OWNS relationship from
\* sourceEntity to the normalized target with 0.8 times the confidence;
\* otherwise nothing.  The relationships returned are exactly these.
C23_OnePerForeignKey ==
    InferenceReturned =>
        LET expected == ExpectedFrom(request.foreignKeys, request.sourceEntity, 1)
            emitted == outcome.relationships
        IN /\ Len(emitted) = Len(expected)
           /\ \E f \in Permutations(1..Len(expected)) :
                 \A i \in 1..Len(expected) : Fits(expected[i], emitted[f[i]])

\* A relationship of this type between these entities was emitted for the
\* column.
Emitted(type, sourceEntity, targetEntity, column) ==
    \E i \in 1..Len(outcome.relationships) :
        /\ outcome.relationships[i].type = type
        /\ outcome.relationships[i].sourceEntity = Str(sourceEntity)
        /\ outcome.relationships[i].targetEntity = Str(targetEntity)
        /\ outcome.relationships[i].foreignKeyColumn = column

\* The foreign keys handed in hold this column with this target entity.
Given(column, targetEntity) ==
    \E i \in 1..Len(request.foreignKeys) :
        /\ request.foreignKeys[i].columnName = column
        /\ request.foreignKeys[i].targetEntity = Str(targetEntity)

\* C24: direction overrides and alias normalization are applied before
\* emission: person_id of an Account row gives Person -[OWNS]-> Account and
\* person_id of a Company row Person -[CONTROLS]-> Company, never the
\* reverse; from_iban (target BankAccount) of a Transaction row gives
\* Transaction -[FROM]-> Account; and no relationship emitted has the alias
\* BankAccount or Manager as its sourceEntity or targetEntity.
C24_DirectionAndAliases ==
    InferenceReturned =>
        /\ (request.sourceEntity = Account /\ Given(person_id, Person)) =>
              /\ Emitted(OWNS, Person, Account, person_id)
              /\ \A i \in 1..Len(outcome.relationships) :
                    outcome.relationships[i].foreignKeyColumn = person_id =>
                        outcome.relationships[i].sourceEntity # Str(Account)
        /\ (request.sourceEntity = Company /\ Given(person_id, Person)) =>
              /\ Emitted(CONTROLS, Person, Company, person_id)
              /\ \A i \in 1..Len(outcome.relationships) :
                    outcome.relationships[i].foreignKeyColumn = person_id =>
                        outcome.relationships[i].sourceEntity # Str(Company)
        /\ (request.sourceEntity = Transaction /\ Given(from_iban, BankAccount)) =>
              Emitted(FROM, Transaction, Account, from_iban)
        /\ \A i \in 1..Len(outcome.relationships) :
              /\ outcome.relationships[i].sourceEntity \notin {Str(BankAccount), Str(Manager)}
              /\ outcome.relationships[i].targetEntity \notin {Str(BankAccount), Str(Manager)}

\* C25: whatever the foreign keys and their order, rule-matched and generic
\* ones mixed, inferRelationships returns its relationships by
\* non-increasing confidence, and every confidence returned lies between 0
\* and 1 when every confidence handed in does.
C25_InferenceSorted ==
    InferenceReturned =>
        /\ NonIncreasing(outcome.relationships)
        /\ (\A i \in 1..Len(request.foreignKeys) :
               request.foreignKeys[i].confidence \in 0..ConfidenceUnit)
              => \A i \in 1..Len(outcome.relationships) :
                    outcome.relationships[i].confidence \in 0..ConfidenceUnit

\* Of two foreign keys the first gave a generic relationship and the second
\* a rule's; the rule's, with the higher confidence, is returned first.
C25_Witness ==
    /\ InferenceReturned
    /\ Len(request.foreignKeys) = 2
    /\ Len(outcome.relationships) = 2
    /\ FirstMatchingRule(request.sourceEntity, request.foreignKeys[1]) = 0
    /\ FirstMatchingRule(request.sourceEntity, request.foreignKeys[2]) > 0
    /\ outcome.relationships[1].foreignKeyColumn = request.foreignKeys[2].columnName
    /\ outcome.relationships[1].confidence > outcome.relationships[2].confidence
    /\ outcome.relationships[2].confidence < request.foreignKeys[1].confidence

\* The rule table of the call: the built-in rules, then the custom ones,
\* with the flags caseInsensitive asks for.
RulesAsked ==
    allPatterns(request.opts.customPatterns,
                Truthy(Default(request.opts.caseInsensitive, Bool(TRUE))))

\* The rules whose pattern matches the trimmed header.
RulesMatching(header) ==
    {r \in 1..Len(RulesAsked) : MatchesFrom(RulesAsked[r].pattern, trim(header), 0)}

\* Among them the one of highest confidence, the earliest in the table
\* among equals.
BestRule(header) ==
    CHOOSE r \in RulesMatching(header) :
        \A q \in RulesMatching(header) :
            \/ RulesAsked[r].confidence > RulesAsked[q].confidence
            \/ RulesAsked[r].confidence = RulesAsked[q].confidence /\ r <= q

\* The entry to be emitted for a non-blank header some rule matches.
EntryFor(header) ==
    [columnName |-> header,
     confidence |-> RulesAsked[BestRule(header)].confidence,
     targetEntity |-> TargetOf(RulesAsked[BestRule(header)], trim(header)),
     patternType |-> RulesAsked[BestRule(header)].patternType]

\* How often an entry is in a list.
Count(list, entry) == Cardinality({i \in 1..Len(list) : list[i] = entry})

\* How often a header is among the headers given.
TimesGiven(header) ==
    Cardinality({h \in 1..Len(request.headers) : request.headers[h] = header})

\* C26: each non-blank header is tested, trimmed, against every built-in
\* and every custom rule and gets at most one entry: its confidence is the
\* highest confidence of the rules that match, the earliest rule in the
\* table among those of that confidence supplies targetEntity and
\* patternType, and columnName is the header untrimmed.  A header gets its
\* entry whenever a rule matches and the confidence reaches minConfidence,
\* and nothing else is returned.
C26_BestMatchPerHeader ==
    DetectorReturned =>
        /\ \A h \in 1..Len(request.headers) :
              LET header == request.headers[h]
              IN IF ~IsBlank(header) /\ RulesMatching(header) # {}
                        /\ EntryFor(header).confidence >= MinConfidenceAsked
                 THEN Count(outcome.keys, EntryFor(header)) = TimesGiven(header)
                 ELSE \A i \in 1..Len(outcome.keys) :
                          outcome.keys[i].columnName # header
        /\ \A i \in 1..Len(outcome.keys) :
              /\ TimesGiven(outcome.keys[i].columnName) > 0
              /\ outcome.keys[i] = EntryFor(outcome.keys[i].columnName)

\* ----------------------------------------------------- the pipeline's claims
\* The generator was called with a relationship the inference engine
\* emitted.
GeneratorCalledByPipeline ==
    request.fn = "generateRelationshipQuery" /\ "origin" \in DOMAIN request

\* That relationship was emitted for a foreign key a domain rule matched.
EmittedByRule ==
    LET asked == request.origin.request
        relationship == request.origin.relationship
    IN \E i \in 1..Len(asked.foreignKeys) :
          LET fk == asked.foreignKeys[i]
              r == FirstMatchingRule(asked.sourceEntity, fk)
          IN /\ r > 0
             /\ relationship.foreignKeyColumn = fk.columnName
             /\ relationship.type = BANKING_RULES[r].relationshipType
             /\ relationship.confidence = fk.confidence

\* C29: what the inference engine emits for a foreign key matched by a
\* domain rule can be fed to the query generator: its sourceEntity and
\* targetEntity are registered in the unique-identifier table, and
\* generateRelationshipQuery, called with them and with rows that hold every
\* identifier, does not throw unknown-entity-type.
C29_InferredEntitiesRegistered ==
    (GeneratorCalledByPipeline /\ EmittedByRule) =>
        /\ Registered(request.sourceNode.entityType)
        /\ Registered(request.targetNode.entityType)
        /\ Settled => ~(outcome.kind = "threw"
                            /\ outcome.message[1] = "Unknown entity type: \"")

\* A relationship without its foreignKeyColumn.
WithoutColumn(relationship) ==
    [type |-> relationship.type, sourceEntity |-> relationship.sourceEntity,
     targetEntity |-> relationship.targetEntity, confidence |-> relationship.confidence]

\* The inference engine was called with what the detector returned for a
\* single header.
InferredFromOneHeader ==
    /\ InferenceReturned
    /\ request.origin.fn = "detectForeignKeys"
    /\ Len(request.origin.headers) = 1

\* C30: white space around a header does not change what the pipeline
\* infers: for a header h and a source entity E, the relationships inferred
\* from detectForeignKeys([h]) and from detectForeignKeys([trim(h)]) have
\* the same type, sourceEntity, targetEntity and confidence, and differ in
\* foreignKeyColumn only.
C30_WhiteSpaceIrrelevant ==
    InferredFromOneHeader =>
        LET trimmed == inferRelationships(
                           detectForeignKeys(<<trim(request.origin.headers[1])>>,
                                             request.origin.opts),
                           request.sourceEntity)
        IN /\ Len(outcome.relationships) = Len(trimmed)
           /\ \A i \in 1..Len(trimmed) :
                 WithoutColumn(outcome.relationships[i]) = WithoutColumn(trimmed[i])

\* ------------------------------------------------ the backoff schedule
\* Call c starts waiting for its backoff timer in this step.
WaitBegins(c) == pc[c] # "backoff" /\ pc'[c] = "backoff"

\* Call c hands a chunk to the executor in this step.
AttemptBegins(c) ==
    /\ pc'[c] = "awaitTx"
    /\ \/ attempts'[c].invoked # attempts[c].invoked
       \/ attempts'[c].chunk # attempts[c].chunk

\* C27: the wait before the k-th retry of a chunk is RETRY_DELAY_MS * 2^(k-1),
\* k counted anew for every chunk and never above maxRetries; a wait follows
\* a failed attempt only, never a committed one and never the last failed
\* one; the first attempt of a chunk follows no wait and every later attempt
\* follows one.
C27_BackoffSchedule ==
    [][\A c \in Calls :
          /\ WaitBegins(c) =>
                /\ tx[c].state = "failed"
                /\ attempts[c].invoked \in 1..maxRetries[c]
                /\ delay'[c] = RETRY_DELAY_MS * Pow2(attempts[c].invoked - 1)
          /\ (pc[c] = "awaitTx" /\ tx[c].state = "failed"
                  /\ attempts[c].invoked > maxRetries[c]) => pc'[c] = "aborted"
          /\ AttemptBegins(c) =>
                (attempts'[c].invoked = 1) = (pc[c] # "backoff")]_vars

\* C28: whatever the onProgress callback does, a chunk whose transaction has
\* committed is not handed to the executor again and is counted once: every
\* chunk commits at most once per call, and neither the processed count nor
\* a reported itemsProcessed nor the returned succeeded exceeds the number of
\* items.
C28_CommittedChunkNotRetried ==
    \A c \in Calls :
        /\ attempts[c].committed <= 1
        /\ attempts[c].committed = 1 => attempts[c].invoked = attempts[c].firstCommit
        /\ processedItems[c] <= Len(items[c])
        /\ progress[c].last.itemsProcessed <= Len(items[c])
        /\ result[c].succeeded <= Len(items[c])

=============================================================================
